---- MODULE Spec2Model ----
(***************************************************************************)
(* Grid-trading decision engine of grid_bot (BaseGridStrategy and its two  *)
(* run modes).  One bar is processed by on_bar in four consecutive steps:  *)
(* indicators + ladder (init / soft spacing / recenter), buy pass, sell    *)
(* pass, hedge controller.  The steps of one bar are never interleaved     *)
(* with anything else; pc is the position inside on_bar.                   *)
(*                                                                         *)
(* Arithmetic.  The source computes in floats.  The model computes in      *)
(* integers of fixed units so that the quantities the claims speak about   *)
(* are exact:                                                              *)
(*   price     : ticks (1 tick = 1 USDT per coin)                          *)
(*   quantity  : 1/QtyPerCoin coin; an order quantity is rounded to a      *)
(*               multiple of QtyQuantum (the source rounds to 6 decimals)  *)
(*   money     : 1/(QtyPerCoin*spot_fee_den) USDT, so that price*qty and   *)
(*               the 0.1% fee on it are both integers                      *)
(* A hedge keeps entry*qty (its notional at entry) instead of the entry    *)
(* price, so the volume weighted mean entry is exact.                      *)
(***************************************************************************)
EXTENDS Integers, Sequences, FiniteSets, TLC

VARIABLES
    mode,                      \* "backtest" | "live"
    pc,                        \* position inside on_bar: idle, buy, sell, hedge
    bar,                       \* the bar being processed and what the collaborators do during it
    nbars,                     \* bars accepted so far
    available_capital,
    futures_available_margin,
    realized_grid_profit,
    grid_prices,               \* ascending sequence of level prices
    grid_filled,               \* the level prices whose flag is True
    grid_group_id,             \* 0 is None
    grid_spacing,
    positions,                 \* sequence of Position records
    hedge_position,            \* NoHedge or [open, qty, notional = entry*qty, timestamp]
    pending_recenter,          \* the flag (dict or None in the source)
    grid_db,                   \* rows of grid_state: [group_id, grid_price, use_status]
    next_id,                   \* source of fresh group ids (generate_order_id)
    last_ensure,               \* what the _ensure_hedge_ratio call of the last step did
    last_close,                \* what the _close_hedge call of the last step did
    last_buys,                 \* the fills of the last step's buy pass, in order
    last_sells,                \* the sells of the last step's sell pass, in order
    rebuilt,                   \* whether a new ladder was built during the current on_bar
    recenter,                  \* the branch _maybe_recenter_grid took in the current on_bar
    raised,                    \* whether the last step ended by an exception leaving on_bar
    prev,                      \* the engine state at the start of the last step
    runner,                    \* the feed loop that drives the engine ("none": bars are fed directly)
    feed_pc,                   \* where the feed coroutine stands
    ws,                        \* the websocket: "none", "up", "closed_ok", "closed_err"
    inbox,                     \* the kline messages received and not yet read by the loop
    active,                    \* the on_candle calls started and not yet returned
    arrived,                   \* the messages received so far
    drops,                     \* the connection drops and failed connections so far
    waited,                    \* the seconds slept since the last asyncio.sleep began
    df_history,                \* the bars the backtest loop hands to on_bar as hist_df
    ohlcv_db                   \* rows of ohlcv_data, oldest first: [high, low, close, tr]

vars == <<mode, pc, bar, nbars, available_capital, futures_available_margin,
          realized_grid_profit, grid_prices, grid_filled, grid_group_id, grid_spacing,
          positions, hedge_position, pending_recenter, grid_db, next_id,
          last_ensure, last_close, last_buys, last_sells, rebuilt, recenter, raised, prev,
          runner, feed_pc, ws, inbox, active, arrived, drops, waited,
          df_history, ohlcv_db>>

engine_vars == <<mode, pc, bar, nbars, available_capital, futures_available_margin,
                 realized_grid_profit, grid_prices, grid_filled, grid_group_id,
                 grid_spacing, positions, hedge_position, pending_recenter, grid_db,
                 next_id, last_ensure, last_close, last_buys, last_sells, rebuilt,
                 recenter, raised, prev, df_history, ohlcv_db>>

feed_vars == <<runner, feed_pc, ws, inbox, active, arrived, drops, waited>>

indicator_vars == <<df_history, ohlcv_db>>

---------------------------------------------------------------------------
(* Units and configuration *)

spot_fee_num == 1
spot_fee_den == 1000
QtyQuantum == 20
QtyPerCoin == QtyQuantum * 10
Usdt == QtyPerCoin * spot_fee_den

initial_capital == 1000 * Usdt
reserve_num == 3
reserve_den == 10
grid_levels == 3
atr_multiplier == 1
drift_k_num == 5
drift_k_den == 2
hedge_leverage == 2
min_order_usdt == 5 * Usdt
min_hedge_notional == 5 * Usdt
hedge_size_num == 1
hedge_size_den == 2
danger_ratio_num == 3
danger_ratio_den == 10
hedge_tp_den == 20
hedge_sl_den == 10
hedge_max_loss_ratio == 1
hedge_open_k_den == 2
hedge_min_hold_ms == 5
BarMs == 60
vol_up_num == 3
vol_up_den == 2
vol_down_num == 7
vol_down_den == 10

Modes == {"backtest", "live"}
IsPaper(m) == m \in {"backtest", "forward_test"}

(* Bounds of the exploration *)
MaxBars == 3
Prices == {40, 50, 70, 100}
Atrs == {10}

NoHedge == [open |-> FALSE, qty |-> 0, notional |-> 0, timestamp |-> 0]
NoEnsure == [called |-> FALSE]
NoClose == [called |-> FALSE]

---------------------------------------------------------------------------
(* Arithmetic helpers *)

Max(a, b) == IF a >= b THEN a ELSE b
Min(a, b) == IF a <= b THEN a ELSE b
Abs(a) == IF a >= 0 THEN a ELSE -a
RoundDiv(a, b) == (2 * a + b) \div (2 * b)
Notional(price, qty) == price * qty * spot_fee_den
Fee(notional) == (notional \div spot_fee_den) * spot_fee_num

RECURSIVE SumQty(_)
SumQty(ps) == IF ps = <<>> THEN 0 ELSE Head(ps).qty + SumQty(Tail(ps))

RECURSIVE SumCost(_)
SumCost(ps) == IF ps = <<>> THEN 0
               ELSE Notional(Head(ps).entry_price, Head(ps).qty) + SumCost(Tail(ps))

RECURSIVE InsertDesc(_, _)
InsertDesc(p, sorted) ==
    IF sorted = <<>> THEN <<p>>
    ELSE IF Head(sorted).entry_price >= p.entry_price
         THEN <<Head(sorted)>> \o InsertDesc(p, Tail(sorted))
         ELSE <<p>> \o sorted

RECURSIVE SortByEntryDesc(_)
\* No sorting: the positions are taken in the order they were opened
SortByEntryDesc_unsorted(ps) == ps

SortByEntryDesc(ps) ==
    IF ps = <<>> THEN <<>>
    ELSE InsertDesc(ps[Len(ps)], SortByEntryDesc(SubSeq(ps, 1, Len(ps) - 1)))

RECURSIVE InsertAsc(_, _)
InsertAsc(x, sorted) ==
    IF sorted = <<>> THEN <<x>>
    ELSE IF Head(sorted) <= x THEN <<Head(sorted)>> \o InsertAsc(x, Tail(sorted))
         ELSE <<x>> \o sorted

RECURSIVE SortedAsc(_)
SortedAsc(xs) ==
    IF xs = <<>> THEN <<>>
    ELSE InsertAsc(xs[Len(xs)], SortedAsc(SubSeq(xs, 1, Len(xs) - 1)))

---------------------------------------------------------------------------
(* The engine state as one record, so that the steps of on_bar compose *)

Eng == [available_capital |-> available_capital,
        futures_available_margin |-> futures_available_margin,
        realized_grid_profit |-> realized_grid_profit,
        grid_prices |-> grid_prices,
        grid_filled |-> grid_filled,
        grid_group_id |-> grid_group_id,
        grid_spacing |-> grid_spacing,
        positions |-> positions,
        hedge_position |-> hedge_position,
        pending_recenter |-> pending_recenter,
        grid_db |-> grid_db,
        next_id |-> next_id,
        last_ensure |-> NoEnsure,
        last_close |-> NoClose,
        last_buys |-> <<>>,
        last_sells |-> <<>>,
        rebuilt |-> rebuilt,
        recenter |-> recenter,
        raised |-> FALSE]

SetEng(s) ==
    /\ available_capital' = s.available_capital
    /\ futures_available_margin' = s.futures_available_margin
    /\ realized_grid_profit' = s.realized_grid_profit
    /\ grid_prices' = s.grid_prices
    /\ grid_filled' = s.grid_filled
    /\ grid_group_id' = s.grid_group_id
    /\ grid_spacing' = s.grid_spacing
    /\ positions' = s.positions
    /\ hedge_position' = s.hedge_position
    /\ pending_recenter' = s.pending_recenter
    /\ grid_db' = s.grid_db
    /\ next_id' = s.next_id
    /\ last_ensure' = s.last_ensure
    /\ last_close' = s.last_close
    /\ last_buys' = s.last_buys
    /\ last_sells' = s.last_sells
    /\ rebuilt' = s.rebuilt
    /\ recenter' = s.recenter
    /\ raised' = s.raised
    /\ prev' = Eng

---------------------------------------------------------------------------
(* Grid Manager *)

\* A ladder laid out above the base price
LadderLevel_upper(base_price, spacing, i) == base_price + spacing * i

\* Level i (1-based: the source's i + 1) of a new ladder; prices are whole
\* ticks here, which round(., 4) leaves as they are.
LadderLevel(base_price, spacing, i) == base_price - spacing * i

InitLowerGrid(s, base_price, atr, spacing_override) ==
    LET spacing == IF spacing_override > 0 THEN spacing_override
                   ELSE IF atr <= 0 THEN (base_price * 3) \div 100
                   ELSE atr * atr_multiplier
        listed == [i \in 1..grid_levels |-> LadderLevel(base_price, spacing, i)]
        prices == SortedAsc(listed)
        gid == s.next_id
    IN [s EXCEPT !.grid_spacing = spacing,
                 !.grid_prices = prices,
                 !.grid_group_id = gid,
                 !.grid_filled = {},
                 !.next_id = gid + 1,
                 !.rebuilt = TRUE,
                 !.grid_db = @ \cup {[group_id |-> gid, grid_price |-> prices[j],
                                      use_status |-> "Y"] : j \in 1..grid_levels}]

RecalcSpacingIfNeeded(s, atr_14, atr_28, curr_spacing) ==
    IF atr_14 <= 0 \/ atr_28 <= 0 \/ s.grid_prices = <<>> THEN curr_spacing
    ELSE
      LET o1 == IF curr_spacing <= 0 /\ Len(s.grid_prices) >= 2
                THEN s.grid_prices[2] - s.grid_prices[1] ELSE curr_spacing
          old_spacing == IF o1 <= 0 THEN atr_14 * atr_multiplier ELSE o1
          new_spacing ==
              IF atr_14 * vol_up_den > atr_28 * vol_up_num THEN atr_14 * atr_multiplier * 2
              ELSE IF atr_14 * vol_down_den < atr_28 * vol_down_num
                   THEN atr_14 * atr_multiplier
                   ELSE 0
      IN IF new_spacing <= 0 THEN old_spacing ELSE new_spacing

ComputeRecenterSpacing(price, atr_14, atr_28, prior_spacing) ==
    LET base == atr_14 * atr_multiplier
        spacing ==
            IF atr_14 > 0
            THEN IF atr_28 > 0
                 THEN IF atr_14 * vol_up_den >= atr_28 * vol_up_num
                      THEN RoundDiv(base * 13, 10)
                      ELSE IF atr_14 * vol_down_den <= atr_28 * vol_down_num
                           THEN RoundDiv(base * 8, 10)
                           ELSE base
                 ELSE base
            ELSE IF prior_spacing > 0 THEN prior_spacing ELSE 0
    IN IF spacing <= 0 THEN RoundDiv(price * 3, 100) ELSE spacing

\* A trend reading without a sideways case
GetTrendDirection_nosideways(row, price) ==
    IF price < row.ema_fast /\ row.ema_fast < row.ema_mid /\ row.ema_mid < row.ema_slow
    THEN "down" ELSE "up"

GetTrendDirection(row, price) ==
    IF price < row.ema_fast /\ row.ema_fast < row.ema_mid /\ row.ema_mid < row.ema_slow
    THEN "down"
    ELSE IF price > row.ema_fast /\ row.ema_fast > row.ema_mid THEN "up"
    ELSE "sideways"

DeactivateGroup(db, group_id) ==
    {IF r.group_id = group_id THEN [r EXCEPT !.use_status = "N"] ELSE r : r \in db}

---------------------------------------------------------------------------
(* Order Execution Orchestrator *)

\* An order size that takes the smaller of the floor and the even share
ComputeDynamicOrderSize_min(s, remaining_slots) ==
    IF remaining_slots <= 0 THEN 0
    ELSE LET tradable_capital == (s.available_capital * 9) \div 10
         IN IF tradable_capital <= 0 THEN 0
            ELSE Min(min_order_usdt, tradable_capital \div remaining_slots)

ComputeDynamicOrderSize(s, remaining_slots) ==
    IF remaining_slots <= 0 THEN 0
    ELSE LET tradable_capital == (s.available_capital * 9) \div 10
         IN IF tradable_capital <= 0 THEN 0
            ELSE Max(min_order_usdt, tradable_capital \div remaining_slots)

BuyQty(order_size_usdt, level_price) ==
    QtyQuantum * RoundDiv(order_size_usdt, level_price * spot_fee_den * QtyQuantum)

\* A buy that forgets the fee
BuyCost_nofee(notional) == notional

BuyCost(notional) == notional + Fee(notional)

\* A buy pass that ignores the filled flag
Buyable_anyfill(price, level_price, filled) == price <= level_price

Buyable(price, level_price, filled) == price <= level_price /\ ~filled

BuyTarget(s, level_price) ==
    LET s1 == s.grid_spacing
        s2 == IF s1 = 0 /\ Len(s.grid_prices) >= 2
              THEN Abs(s.grid_prices[2] - s.grid_prices[1]) ELSE s1
        s3 == IF s2 = 0 THEN (level_price * 2) \div 100 ELSE s2
    IN level_price + s3

\* The loop of _process_buy_grid from level i on; calls counts the collaborator
\* calls made so far in this pass, fail_at is the call that raises (0: none).
RECURSIVE BuyLoop(_, _, _, _, _, _, _)
BuyLoop(s, i, price, order_size_usdt, ts, calls, fail_at) ==
    IF i > Len(s.grid_prices) THEN s
    ELSE
      LET level_price == s.grid_prices[i]
          filled == level_price \in s.grid_filled
          qty == BuyQty(order_size_usdt, level_price)
          notional == Notional(level_price, qty)
          total_cost == BuyCost(notional)
      IN IF ~Buyable(price, level_price, filled)
         THEN BuyLoop(s, i + 1, price, order_size_usdt, ts, calls, fail_at)
         ELSE IF s.available_capital < total_cost
         THEN BuyLoop(s, i + 1, price, order_size_usdt, ts, calls, fail_at)
         ELSE IF calls + 1 = fail_at
         THEN [s EXCEPT !.raised = TRUE]
         ELSE
           LET pos == [entry_price |-> level_price, qty |-> qty,
                       grid_price |-> level_price,
                       target_price |-> BuyTarget(s, level_price),
                       opened_at |-> ts, group_id |-> s.grid_group_id]
               s1 == [s EXCEPT !.available_capital = Max(0, @ - total_cost),
                               !.positions = Append(@, pos),
                               !.grid_filled = @ \cup {level_price},
                               !.last_buys =
                                   Append(@, [level_price |-> level_price, qty |-> qty,
                                              spacing |-> s.grid_spacing,
                                              capital_before |-> s.available_capital,
                                              capital_after |-> Max(0, s.available_capital
                                                                       - total_cost)])]
           IN BuyLoop(s1, i + 1, price, order_size_usdt, ts, calls + 1, fail_at)

\* sync_balances_to_db of the live mode: the exchange's figures overwrite
\* the ledger; the paper _io_refresh_balances returns at once.
RefreshBalances(s, m, env) ==
    IF IsPaper(m) THEN s
    ELSE [s EXCEPT !.available_capital =
                       IF env.spot_free >= 0 THEN env.spot_free ELSE @,
                   !.futures_available_margin =
                       IF env.fut_avail >= 0 THEN env.fut_avail ELSE @]

ProcessBuyGrid(s, m, price, ts, env) ==
    LET s0 == RefreshBalances(s, m, env)
        remaining_slots ==
            Cardinality({j \in 1..Len(s0.grid_prices) : s0.grid_prices[j] \notin s0.grid_filled})
    IN IF remaining_slots <= 0 THEN s0
       ELSE BuyLoop(s0, 1, price, ComputeDynamicOrderSize(s0, remaining_slots),
                    ts, 0, env.buy_fail_at)

\* A sell pass that sells as soon as the entry price is reached
SellDue_entry(price, pos) == ~(price < pos.entry_price)

SellDue(price, pos) == ~(price < pos.target_price)

SellFee(notional) == 0

\* A sell pass that books the proceeds in every mode
SellCredit_always(m, amount) == amount

\* What the sell pass books of an amount: all of it in the paper modes,
\* nothing in live mode
SellCredit(m, amount) == IF IsPaper(m) THEN amount ELSE 0

\* The loop of _process_sell_grid: remaining collects the positions kept.
RECURSIVE SellLoop(_, _, _, _, _, _, _)
SellLoop(s, m, i, price, remaining, calls, fail_at) ==
    IF i > Len(s.positions) THEN [s EXCEPT !.positions = remaining]
    ELSE
      LET pos == s.positions[i]
      IN IF ~SellDue(price, pos)
         THEN SellLoop(s, m, i + 1, price, Append(remaining, pos), calls, fail_at)
         ELSE IF calls + 1 = fail_at
         THEN [s EXCEPT !.raised = TRUE]
         ELSE
           LET notional == Notional(price, pos.qty)
               fee == SellFee(notional)
               pnl == Notional(price, pos.qty) - Notional(pos.entry_price, pos.qty) - fee
               s1 == [s EXCEPT !.available_capital = @ + SellCredit(m, notional - fee),
                               !.realized_grid_profit = @ + SellCredit(m, pnl)]
               s2 == [s1 EXCEPT !.grid_filled = @ \ {pos.grid_price},
                                !.last_sells =
                                    Append(@, [pos |-> pos, price |-> price,
                                               capital_before |-> s.available_capital,
                                               capital_after |-> s1.available_capital,
                                               realized_before |-> s.realized_grid_profit,
                                               realized_after |-> s1.realized_grid_profit])]
           IN SellLoop(s2, m, i + 1, price, remaining, calls + 1, fail_at)

ProcessSellGrid(s, m, price, env) ==
    SellLoop(s, m, 1, price, <<>>, 0, env.sell_fail_at)

---------------------------------------------------------------------------
(* Hedge Controller *)

HedgePnl(h, price) == h.notional - Notional(price, h.qty)

\* record_hedge_balance: the live strategy fetches the exchange balances
\* into the ledger, the paper one only writes a snapshot.
RecordHedgeBalance(s, m, env) == RefreshBalances(s, m, env)

\* An ensure that never takes the early return
HedgeEnough_never(current_qty, net_spot_qty, target_num, target_den) == FALSE

\* current_ratio >= target_ratio, the ratios being fractions of net_spot_qty
HedgeEnough(current_qty, net_spot_qty, target_num, target_den) ==
    IF net_spot_qty > 0
    THEN current_qty * target_den >= net_spot_qty * target_num
    ELSE target_num <= 0

\* A scale-in that adds half of what the target asks for
AddQty_half(current_qty, net_spot_qty, target_num, target_den) ==
    (net_spot_qty * target_num) \div (2 * target_den)
    - (IF net_spot_qty > 0 THEN current_qty ELSE 0)

AddQty(current_qty, net_spot_qty, target_num, target_den) ==
    (net_spot_qty * target_num) \div target_den
    - (IF net_spot_qty > 0 THEN current_qty ELSE 0)

\* Guards that forget the margin check
HedgeRejected_nomargin(fam, notional, required_margin) ==
    \/ fam = 0
    \/ notional < min_hedge_notional
    \/ fam <= 0

\* The guards between the balance refresh and the order
HedgeRejected(fam, notional, required_margin) ==
    \/ fam = 0
    \/ notional < min_hedge_notional
    \/ fam <= 0
    \/ required_margin > fam

\* A scale-in that re-prices the whole hedge at the latest fill
ScaleIn_lastfill(h, add_qty, hedge_entry_price, ts) ==
    [open |-> TRUE, qty |-> h.qty + add_qty,
     notional |-> Notional(hedge_entry_price, h.qty + add_qty),
     timestamp |-> IF h.open THEN h.timestamp ELSE ts]

ScaleIn(h, add_qty, hedge_entry_price, ts) ==
    IF ~h.open
    THEN [open |-> TRUE, qty |-> add_qty,
          notional |-> Notional(hedge_entry_price, add_qty), timestamp |-> ts]
    ELSE [h EXCEPT !.qty = @ + add_qty,
                   !.notional = @ + Notional(hedge_entry_price, add_qty)]

EnsureHedgeRatio(s, m, ts, target_num, target_den, price, net_spot_qty, env) ==
    LET h == s.hedge_position
        current_qty == IF h.open THEN h.qty ELSE 0
        enough == HedgeEnough(current_qty, net_spot_qty, target_num, target_den)
        add_qty == AddQty(current_qty, net_spot_qty, target_num, target_den)
        notional == Notional(price, add_qty)
        required_margin == notional \div Max(hedge_leverage, 1)
        s0 == RefreshBalances(s, m, env)
        fam == s0.futures_available_margin
        rejected == HedgeRejected(fam, notional, required_margin)
        io_called == ~enough /\ ~rejected
        io_failed == io_called /\ env.open_fails
        hedge_entry_price == price + env.fill_slip
        h1 == ScaleIn(h, add_qty, hedge_entry_price, ts)
        s1 == IF enough THEN s
              ELSE IF rejected \/ io_failed THEN s0
              ELSE RecordHedgeBalance(
                     [s0 EXCEPT !.hedge_position = h1,
                                !.futures_available_margin = Max(0, fam - required_margin)],
                     m, env)
    IN [s1 EXCEPT !.last_ensure =
           [called |-> TRUE, target_num |-> target_num, target_den |-> target_den,
            price |-> price, net_spot_qty |-> net_spot_qty,
            hedge_before |-> h, fam_before |-> s.futures_available_margin,
            enough |-> enough, add_qty |-> add_qty, notional |-> notional,
            required_margin |-> required_margin, fam_at_guard |-> fam,
            rejected |-> rejected,
            io_called |-> io_called, io_failed |-> io_failed,
            hedge_after |-> s1.hedge_position,
            fam_after |-> s1.futures_available_margin]]

\* A release that returns the locked margin without the PnL
ReleasedMargin_nopnl(fam, locked_margin, pnl) == Max(0, fam + locked_margin)

\* A release that forgets the locked margin
ReleasedMargin_nolock(fam, locked_margin, pnl) == Max(0, fam + pnl)

ReleasedMargin(fam, locked_margin, pnl) == Max(0, fam + locked_margin + pnl)

\* A close that zeroes the hedge record instead of dropping it
ClosedHedge_zeroed(h) == [h EXCEPT !.qty = 0, !.notional = 0]

ClosedHedge(h) == NoHedge

\* _io_close_hedge: the live strategy sends the closing order and catches
\* whatever the exchange raises; the backtest one fills a mock order.
IoCloseHedgeFailed(m, env) == ~IsPaper(m) /\ env.close_fails

CloseHedge(s, m, price, reason, env) ==
    IF ~s.hedge_position.open THEN s
    ELSE
      LET h == s.hedge_position
          locked_margin == h.notional \div Max(hedge_leverage, 1)
          pnl == HedgePnl(h, price)
          s1 == IF IsPaper(m)
                THEN [s EXCEPT !.available_capital = @ + pnl,
                               !.futures_available_margin =
                                   ReleasedMargin(@, locked_margin, pnl)]
                ELSE s
          s2 == RecordHedgeBalance([s1 EXCEPT !.hedge_position = ClosedHedge(h)], m, env)
      IN [s2 EXCEPT !.last_close =
             [called |-> TRUE, reason |-> reason, price |-> price, hedge_before |-> h,
              io_failed |-> IoCloseHedgeFailed(m, env),
              fam_before |-> s.futures_available_margin,
              capital_before |-> s.available_capital,
              locked_margin |-> locked_margin, pnl |-> pnl,
              hedge_after |-> s2.hedge_position,
              fam_released |-> s1.futures_available_margin,
              fam_after |-> s2.futures_available_margin,
              capital_after |-> s2.available_capital]]

\* A rebalance that sells every losing position, whatever the buffer
KeepsPosition_nobuffer(pos_unreal, buffer) == pos_unreal >= 0

\* The two tests of _rebalance_spot_after_hedge that keep a position
KeepsPosition(pos_unreal, buffer) == pos_unreal >= 0 \/ Abs(pos_unreal) > buffer

\* The loop of _rebalance_spot_after_hedge over the positions sorted by
\* entry price, highest first.
RECURSIVE RebalanceLoop(_, _, _, _, _, _)
RebalanceLoop(sorted, price, buffer, kept, calls, fail_at) ==
    IF sorted = <<>> THEN kept
    ELSE
      LET p == Head(sorted)
          pos_unreal == Notional(price, p.qty) - Notional(p.entry_price, p.qty)
          loss_if_sell == Abs(pos_unreal)
      IN IF KeepsPosition(pos_unreal, buffer)
         THEN RebalanceLoop(Tail(sorted), price, buffer, Append(kept, p), calls, fail_at)
         ELSE IF calls + 1 = fail_at
         THEN RebalanceLoop(Tail(sorted), price, buffer, Append(kept, p), calls + 1, fail_at)
         ELSE RebalanceLoop(Tail(sorted), price, buffer - loss_if_sell, kept, calls + 1, fail_at)

RebalanceSpotAfterHedge(s, hedge_pnl, price, env) ==
    IF hedge_pnl <= 0 \/ s.positions = <<>> THEN s
    ELSE [s EXCEPT !.positions =
             RebalanceLoop(SortByEntryDesc(s.positions), price, hedge_pnl, <<>>, 0,
                           env.sell_fail_at)]

---------------------------------------------------------------------------
(* Recenter procedures *)

\* The loop of _recenter_downtrend: sells qty_to_sl from the positions
\* sorted by entry price, highest first.  r is [s, kept, qty_to_sl, calls].
RECURSIVE TrimLoop(_, _, _, _, _, _, _, _)
TrimLoop(s, m, sorted, price, kept, qty_to_sl, calls, fail_at) ==
    IF sorted = <<>> THEN [s EXCEPT !.positions = kept]
    ELSE
      LET p == Head(sorted)
          sell_qty == Min(p.qty, qty_to_sl)
          remaining_qty == p.qty - sell_qty
          s1 == IF IsPaper(m)
                THEN [s EXCEPT !.available_capital = @ + Notional(price, sell_qty),
                               !.realized_grid_profit =
                                   @ + Notional(price, sell_qty)
                                     - Notional(p.entry_price, sell_qty)]
                ELSE s
      IN IF qty_to_sl <= 0
         THEN TrimLoop(s, m, Tail(sorted), price, Append(kept, p), qty_to_sl, calls, fail_at)
         ELSE IF calls + 1 = fail_at
         THEN TrimLoop(s, m, Tail(sorted), price, Append(kept, p), qty_to_sl,
                       calls + 1, fail_at)
         ELSE TrimLoop(s1, m, Tail(sorted), price,
                       IF remaining_qty > 0
                       THEN Append(kept, [p EXCEPT !.qty = remaining_qty]) ELSE kept,
                       qty_to_sl - sell_qty, calls + 1, fail_at)

RecenterDowntrend(s, m, ts, price, env) ==
    LET total_qty == SumQty(s.positions)
        s1 == TrimLoop(s, m, SortByEntryDesc(s.positions), price, <<>>,
                       total_qty \div 2, 0, env.sell_fail_at)
        remaining_qty == SumQty(s1.positions)
    IN IF total_qty <= 0 THEN s
       ELSE IF remaining_qty <= 0 THEN s1
       ELSE EnsureHedgeRatio(s1, m, ts, 1, 1, price, remaining_qty, env)

\* The profit-locking loop of _recenter_uptrend.
RECURSIVE LockProfitLoop(_, _, _, _, _, _, _)
LockProfitLoop(s, m, i, price, kept, calls, fail_at) ==
    IF i > Len(s.positions) THEN [s EXCEPT !.positions = kept]
    ELSE
      LET p == s.positions[i]
          unreal == Notional(price, p.qty) - Notional(p.entry_price, p.qty)
          s1 == IF IsPaper(m)
                THEN [s EXCEPT !.available_capital = @ + Notional(price, p.qty),
                               !.realized_grid_profit = @ + unreal]
                ELSE s
      IN IF unreal <= 0
         THEN LockProfitLoop(s, m, i + 1, price, Append(kept, p), calls, fail_at)
         ELSE IF calls + 1 = fail_at
         THEN LockProfitLoop(s, m, i + 1, price, Append(kept, p), calls + 1, fail_at)
         ELSE LockProfitLoop(s1, m, i + 1, price, kept, calls + 1, fail_at)

RecenterUptrend(s, m, ts, price, atr_14, atr_28, env) ==
    LET s1 == IF s.hedge_position.open /\ HedgePnl(s.hedge_position, price) >= 0
              THEN CloseHedge(s, m, price, "UPTREND_RECENTER_CLOSE_HEDGE", env)
              ELSE s
        s2 == LockProfitLoop(s1, m, 1, price, <<>>, 0, env.sell_fail_at)
        old_group == s2.grid_group_id
        s3 == IF old_group # 0 /\ ~env.db_fails
              THEN [s2 EXCEPT !.grid_db = DeactivateGroup(@, old_group)]
              ELSE s2
        s4 == [s3 EXCEPT !.grid_prices = <<>>, !.grid_filled = {},
                         !.grid_group_id = 0, !.grid_spacing = 0]
    IN InitLowerGrid(s4, price, atr_14,
                     ComputeRecenterSpacing(price, atr_14, atr_28, s4.grid_spacing))

\* The forced liquidation loop of _do_full_recenter.
RECURSIVE LiquidateLoop(_, _, _, _, _, _, _)
LiquidateLoop(s, m, i, price, remaining, calls, fail_at) ==
    IF i > Len(s.positions)
    THEN [s EXCEPT !.positions = IF m = "live" THEN remaining ELSE <<>>]
    ELSE
      LET pos == s.positions[i]
          s1 == IF IsPaper(m)
                THEN [s EXCEPT !.available_capital = @ + Notional(price, pos.qty),
                               !.realized_grid_profit =
                                   @ + Notional(price, pos.qty)
                                     - Notional(pos.entry_price, pos.qty)]
                ELSE s
      IN IF calls + 1 = fail_at
         THEN LiquidateLoop(s, m, i + 1, price, Append(remaining, pos), calls + 1, fail_at)
         ELSE LiquidateLoop(s1, m, i + 1, price, remaining, calls + 1, fail_at)

DoFullRecenter(s, m, ts, price, atr_14, atr_28, env) ==
    LET old_group == s.grid_group_id
        prior_spacing == s.grid_spacing
        h == s.hedge_position
        hedge_pnl == HedgePnl(h, price)
        s1 == IF h.open
              THEN RebalanceSpotAfterHedge(CloseHedge(s, m, price, "RECENTER", env),
                                           hedge_pnl, price, env)
              ELSE s
        s2 == LiquidateLoop(s1, m, 1, price, <<>>, 0, env.sell_fail_at)
        s3 == IF old_group # 0 /\ ~env.db_fails
              THEN [s2 EXCEPT !.grid_db = DeactivateGroup(@, old_group)]
              ELSE s2
        s4 == [s3 EXCEPT !.grid_prices = <<>>, !.grid_filled = {},
                         !.grid_group_id = 0, !.grid_spacing = 0,
                         !.hedge_position = NoHedge]
    IN IF h.open /\ hedge_pnl < 0 THEN s
       ELSE InitLowerGrid(s4, price, atr_14,
                          ComputeRecenterSpacing(price, atr_14, atr_28, prior_spacing))

\* The drift / fill-ratio decision of _maybe_recenter_grid
NeedRecenter(s, price, atr_14) ==
    LET sp1 == IF s.grid_spacing <= 0 /\ Len(s.grid_prices) >= 2
               THEN s.grid_prices[2] - s.grid_prices[1] ELSE s.grid_spacing
        spacing == IF sp1 <= 0 /\ atr_14 > 0 THEN atr_14 * atr_multiplier ELSE sp1
        levels == {s.grid_prices[j] : j \in 1..Len(s.grid_prices)}
        lowest == CHOOSE x \in levels : \A y \in levels : x <= y
        highest == CHOOSE x \in levels : \A y \in levels : x >= y
        filled_levels == Cardinality({j \in 1..Len(s.grid_prices) :
                                         s.grid_prices[j] \in s.grid_filled})
    IN /\ s.grid_prices # <<>>
       /\ spacing > 0
       /\ \/ (price - highest) * drift_k_den > spacing * drift_k_num
          \/ (lowest - price) * drift_k_den > spacing * drift_k_num
          \/ filled_levels * 10 > 7 * Len(s.grid_prices)

MaybeRecenterGrid(s, m, ts, price, row, env) ==
    LET atr_14 == row.atr_14
        atr_28 == row.atr_28
        trend == GetTrendDirection(row, price)
    IN IF ~NeedRecenter(s, price, atr_14) THEN s
       ELSE IF trend = "down"
       THEN [RecenterDowntrend(s, m, ts, price, env) EXCEPT !.pending_recenter = TRUE,
                                                            !.recenter = "down"]
       ELSE IF trend = "up"
       THEN [RecenterUptrend(s, m, ts, price, atr_14, atr_28, env) EXCEPT !.recenter = "up"]
       ELSE IF s.hedge_position.open /\ HedgePnl(s.hedge_position, price) < 0
       THEN [s EXCEPT !.recenter = "skipped"]
       ELSE [DoFullRecenter(s, m, ts, price, atr_14, atr_28, env) EXCEPT !.recenter = "full"]

---------------------------------------------------------------------------
(* Hedge exit and the per-bar hedge evaluation *)

\* A) the deferred recenter fires only on a hedge with a gain
DeferredRecenterDue_gain(pending, hedge_pnl) == pending /\ hedge_pnl > 0

\* A) a recenter is pending and the hedge does not lose
DeferredRecenterDue(pending, hedge_pnl) == pending /\ hedge_pnl >= 0

\* B) the hedge loss reaches twice the spot loss
MaxLossDue_double(spot_unrealized, hedge_pnl) ==
    LET loss_to_cover == Max(0, -spot_unrealized)
        max_loss_threshold == loss_to_cover * hedge_max_loss_ratio
    IN max_loss_threshold > 0 /\ hedge_pnl <= -(2 * max_loss_threshold)

\* B) the hedge loss reaches loss_to_cover * hedge_max_loss_ratio
MaxLossDue(spot_unrealized, hedge_pnl) ==
    LET loss_to_cover == Max(0, -spot_unrealized)
        max_loss_threshold == loss_to_cover * hedge_max_loss_ratio
    IN max_loss_threshold > 0 /\ hedge_pnl <= -max_loss_threshold

\* the hedge gain covers the whole spot loss
TakeProfitDue_full(spot_unrealized, hedge_pnl) ==
    LET loss_to_cover == Max(0, -spot_unrealized)
    IN loss_to_cover > 0 /\ hedge_pnl >= loss_to_cover

\* the hedge gain covers loss_to_cover * hedge_tp_ratio (1 / hedge_tp_den)
TakeProfitDue(spot_unrealized, hedge_pnl) ==
    LET loss_to_cover == Max(0, -spot_unrealized)
    IN loss_to_cover > 0 /\ hedge_pnl * hedge_tp_den >= loss_to_cover

Reversal(price, row) == price > row.ema_fast /\ row.ema_fast > row.ema_mid

\* the stop fires at a loss of twice the threshold only
SlReversalDue_double(reversal, spot_unrealized, hedge_pnl) ==
    /\ reversal
    /\ Abs(spot_unrealized) > 0
    /\ hedge_pnl * hedge_sl_den <= -(2 * Abs(spot_unrealized))

\* reversal and hedge_pnl <= -sl_threshold < 0, sl_threshold being
\* abs(spot_unrealized) * hedge_sl_ratio (1 / hedge_sl_den)
SlReversalDue(reversal, spot_unrealized, hedge_pnl) ==
    /\ reversal
    /\ Abs(spot_unrealized) > 0
    /\ hedge_pnl * hedge_sl_den <= -Abs(spot_unrealized)

HoldMs(h, ts) == IF h.timestamp # 0 THEN Max(0, ts - h.timestamp) ELSE 0

\* a cut that does not wait for the minimum hold
ReversalCutDue_nohold(reversal, hedge_pnl, hold_ms) == reversal /\ hedge_pnl < 0

ReversalCutDue(reversal, hedge_pnl, hold_ms) ==
    reversal /\ hedge_pnl < 0 /\ hold_ms >= hedge_min_hold_ms

ManageHedgeExit(s, m, ts, price, spot_unrealized, row, env) ==
    LET h == s.hedge_position
        hedge_pnl == HedgePnl(h, price)
        reversal == Reversal(price, row)
        hold_ms == HoldMs(h, ts)
    IN IF ~h.open THEN s
       ELSE IF DeferredRecenterDue(s.pending_recenter, hedge_pnl)
       THEN [DoFullRecenter(s, m, ts, price, row.atr_14, row.atr_28, env)
                EXCEPT !.pending_recenter = FALSE]
       ELSE IF MaxLossDue(spot_unrealized, hedge_pnl)
       THEN [CloseHedge(s, m, price, "MAX_LOSS", env) EXCEPT !.pending_recenter = FALSE]
       ELSE IF TakeProfitDue(spot_unrealized, hedge_pnl)
       THEN RebalanceSpotAfterHedge(CloseHedge(s, m, price, "TP", env), hedge_pnl, price, env)
       ELSE IF SlReversalDue(reversal, spot_unrealized, hedge_pnl)
       THEN [CloseHedge(s, m, price, "SL_REVERSAL", env) EXCEPT !.pending_recenter = FALSE]
       ELSE IF ReversalCutDue(reversal, hedge_pnl, hold_ms)
       THEN [CloseHedge(s, m, price, "REVERSAL_CUT", env) EXCEPT !.pending_recenter = FALSE]
       ELSE s

\* The guards of _process_hedge that end the evaluation before any decision
HedgeEvaluated(s, row) ==
    /\ s.grid_prices # <<>>
    /\ s.positions # <<>>
    /\ ~(row.atr_14 <= 0 \/ row.ema_fast = 0 \/ row.ema_mid = 0 \/ row.ema_slow = 0)
    /\ SumQty(s.positions) > 0

SpotUnrealized(s, price) == Notional(price, SumQty(s.positions)) - SumCost(s.positions)

\* The hedge entries of _process_hedge (danger zone, then the break of the
\* lowest level), up to the call of _manage_hedge_exit
HedgeEntry(s, m, ts, price, row, env) ==
    LET atr == row.atr_14
        net_spot_qty == SumQty(s.positions)
        grid_sorted == SortedAsc(s.grid_prices)
        lowest == grid_sorted[1]
        second == IF Len(grid_sorted) > 1 THEN grid_sorted[2] ELSE lowest
        in_danger_zone == lowest <= price /\ price <= second
        downtrend_light == price < row.ema_fast /\ row.ema_fast < row.ema_mid
        downtrend_strong == downtrend_light /\ row.ema_mid < row.ema_slow
        price_break == price * hedge_open_k_den < lowest * hedge_open_k_den - atr
        s1 == IF in_danger_zone /\ downtrend_light
              THEN EnsureHedgeRatio(s, m, ts, danger_ratio_num, danger_ratio_den, price,
                                    net_spot_qty, env)
              ELSE s
    IN IF price_break /\ downtrend_strong
       THEN EnsureHedgeRatio(s1, m, ts, hedge_size_num, hedge_size_den, price,
                             net_spot_qty, env)
       ELSE s1

ProcessHedge(s, m, ts, price, row, env) ==
    IF ~HedgeEvaluated(s, row) THEN s
    ELSE ManageHedgeExit(HedgeEntry(s, m, ts, price, row, env), m, ts, price,
                         SpotUnrealized(s, price), row, env)

---------------------------------------------------------------------------
(* The bar and what the collaborators do while it is processed *)

\* The indicator rows a bar at this price may carry: strong down-trend,
\* up-trend, light down-trend (sideways for the recenter decision).
Rows(price) ==
    UNION {{[atr_14 |-> atr, atr_28 |-> atr, ema_fast |-> price + 1, ema_mid |-> price + 2,
             ema_slow |-> price + 3],
            [atr_14 |-> atr, atr_28 |-> atr, ema_fast |-> price - 1, ema_mid |-> price - 2,
             ema_slow |-> price - 3],
            [atr_14 |-> atr, atr_28 |-> atr, ema_fast |-> price + 1, ema_mid |-> price + 2,
             ema_slow |-> price + 1]} : atr \in Atrs}

PaperEnv == [spot_free |-> -1, fut_avail |-> -1, buy_fail_at |-> 0, sell_fail_at |-> 0,
             open_fails |-> FALSE, close_fails |-> FALSE, fill_slip |-> 0,
             db_fails |-> FALSE]

\* What the exchange does during one bar of a live run: the balances it
\* reports (-1: the fetch fails and the ledger keeps its figure), the order
\* call that is rejected, the fill price of a hedge order, a futures
\* endpoint that rejects the opening and the closing orders.
LiveEnvs ==
    {[PaperEnv EXCEPT !.spot_free = 400 * Usdt, !.fut_avail = 300 * Usdt],
     [PaperEnv EXCEPT !.spot_free = 150 * Usdt, !.fut_avail = 1 * Usdt],
     [PaperEnv EXCEPT !.buy_fail_at = 2],
     [PaperEnv EXCEPT !.sell_fail_at = 1, !.fill_slip = -1],
     [PaperEnv EXCEPT !.sell_fail_at = 2],
     [PaperEnv EXCEPT !.open_fails = TRUE, !.close_fails = TRUE],
     [PaperEnv EXCEPT !.fut_avail = 0, !.db_fails = TRUE]}

Envs(m) == IF IsPaper(m) THEN {PaperEnv} ELSE LiveEnvs

NoBar == [price |-> 0, row |-> [atr_14 |-> 0, atr_28 |-> 0, ema_fast |-> 0, ema_mid |-> 0,
                                ema_slow |-> 0],
          ts |-> 0, env |-> PaperEnv]

---------------------------------------------------------------------------
(* on_bar *)

EngineInit ==
    /\ mode \in Modes
    /\ pc = "idle"
    /\ bar = NoBar
    /\ nbars = 0
    /\ available_capital = initial_capital - 2 * ((initial_capital * reserve_num) \div reserve_den)
    /\ futures_available_margin = (initial_capital * reserve_num) \div reserve_den
    /\ realized_grid_profit = 0
    /\ grid_prices = <<>>
    /\ grid_filled = {}
    /\ grid_group_id = 0
    /\ grid_spacing = 0
    /\ positions = <<>>
    /\ hedge_position = NoHedge
    /\ pending_recenter = FALSE
    /\ grid_db = {}
    /\ next_id = 1
    /\ last_ensure = NoEnsure
    /\ last_close = NoClose
    /\ last_buys = <<>>
    /\ last_sells = <<>>
    /\ rebuilt = FALSE
    /\ recenter = "none"
    /\ raised = FALSE
    /\ prev = Eng

\* No feed loop: the bars are handed to on_bar by a backtest or a test.
\* The indicator rows are inputs of the bar (Rows): no bar history is kept
NoHistory ==
    /\ df_history = <<>>
    /\ ohlcv_db = <<>>

FeedOff ==
    /\ runner = "none"
    /\ feed_pc = "off"
    /\ ws = "none"
    /\ inbox = <<>>
    /\ active = 0
    /\ arrived = 0
    /\ drops = 0
    /\ waited = 0

Init == EngineInit /\ FeedOff /\ NoHistory

\* A spacing adjustment that also frees every level of the ladder
SoftSpacing_freed(s, atr_14, atr_28) ==
    LET old_spacing == s.grid_spacing
        new_spacing == RecalcSpacingIfNeeded(s, atr_14, atr_28, old_spacing)
    IN IF old_spacing > 0 /\ Abs(new_spacing - old_spacing) * 5 > old_spacing
       THEN [s EXCEPT !.grid_spacing = new_spacing, !.grid_filled = {}]
       ELSE s

\* The soft spacing adjustment of on_bar: the spacing follows the ATR regime
\* when it moves by more than 20%
SoftSpacing(s, atr_14, atr_28) ==
    LET old_spacing == s.grid_spacing
        new_spacing == RecalcSpacingIfNeeded(s, atr_14, atr_28, old_spacing)
    IN IF old_spacing > 0 /\ Abs(new_spacing - old_spacing) * 5 > old_spacing
       THEN [s EXCEPT !.grid_spacing = new_spacing]
       ELSE s

\* Steps 1-4 of on_bar: the indicator row of the bar, then the ladder
GridStep(s, m, b) ==
    IF s.grid_prices = <<>>
    THEN InitLowerGrid(s, b.price, b.row.atr_14, 0)
    ELSE MaybeRecenterGrid(SoftSpacing(s, b.row.atr_14, b.row.atr_28), m, b.ts, b.price,
                           b.row, b.env)

\* The entry of on_bar for the closed bar of a feed whose bars are ms apart;
\* closes is the set of [price, row, env] the bar may bring
BarStepOn(closes, ms) ==
    /\ pc = "idle"
    /\ \E c \in closes :
         LET b == [price |-> c.price, row |-> c.row, ts |-> (nbars + 1) * ms,
                   env |-> c.env]
             s == GridStep([Eng EXCEPT !.rebuilt = FALSE, !.recenter = "none"], mode, b)
         IN /\ bar' = b
            /\ SetEng(s)
            /\ pc' = IF s.raised THEN "idle" ELSE "buy"
    /\ nbars' = nbars + 1
    /\ UNCHANGED <<mode, feed_vars, indicator_vars>>

BarStep(prices, envs, ms) ==
    BarStepOn({[price |-> price, row |-> row, env |-> env] :
                  <<price, row, env>> \in
                      {x \in prices \X (UNION {Rows(q) : q \in prices}) \X envs :
                          x[2] \in Rows(x[1])}}, ms)

OnBar ==
    /\ nbars < MaxBars
    /\ BarStep(Prices, Envs(mode), BarMs)

BuyStep ==
    /\ pc = "buy"
    /\ LET s == ProcessBuyGrid(Eng, mode, bar.price, bar.ts, bar.env)
       IN /\ SetEng(s)
          /\ pc' = IF s.raised THEN "idle" ELSE "sell"
    /\ UNCHANGED <<mode, bar, nbars, feed_vars, indicator_vars>>

SellStep ==
    /\ pc = "sell"
    /\ LET s == ProcessSellGrid(Eng, mode, bar.price, bar.env)
       IN /\ SetEng(s)
          /\ pc' = IF s.raised THEN "idle" ELSE "hedge"
    /\ UNCHANGED <<mode, bar, nbars, feed_vars, indicator_vars>>

HedgeStep ==
    /\ pc = "hedge"
    /\ SetEng(ProcessHedge(Eng, mode, bar.ts, bar.price, bar.row, bar.env))
    /\ pc' = "idle"
    /\ UNCHANGED <<mode, bar, nbars, feed_vars, indicator_vars>>

Next == OnBar \/ BuyStep \/ SellStep \/ HedgeStep

Spec == Init /\ [][Next]_vars

---------------------------------------------------------------------------
(* The danger-zone scenario: the hedge evaluation of one bar at 95 on the
   ladder 94 / 96 / 98.  Prices are counted in half ticks here, so that an
   EMA of 94.5 is the whole number 189, and the ledger amounts double with
   them. *)

ScenarioLadder == <<188, 192, 196>>

\* emaFast 94.5 or 95.5, emaMid 96, emaSlow 95 or 97, ATR 2
ScenarioRows ==
    {[atr_14 |-> 4, atr_28 |-> 4, ema_fast |-> f, ema_mid |-> 192, ema_slow |-> sl] :
        f \in {189, 191}, sl \in {190, 194}}

ScenarioPosition(level, qty) ==
    [entry_price |-> level, qty |-> qty, grid_price |-> level, target_price |-> level + 4,
     opened_at |-> BarMs, group_id |-> 1]

\* The spot positions held when the bar arrives: bought at 96, at 94, or both
ScenarioPositions ==
    {<<ScenarioPosition(192, 200)>>,
     <<ScenarioPosition(188, 400)>>,
     <<ScenarioPosition(188, 200), ScenarioPosition(192, 200)>>}

ScenarioInit ==
    /\ mode \in Modes
    /\ pc = "hedge"
    /\ nbars = 2
    /\ \E row \in ScenarioRows : \E env \in Envs(mode) :
          bar = [price |-> 190, row |-> row, ts |-> 2 * BarMs, env |-> env]
    /\ positions \in ScenarioPositions
    /\ available_capital =
          2 * (initial_capital - 2 * ((initial_capital * reserve_num) \div reserve_den))
          - BuyCost(SumCost(positions))
    /\ futures_available_margin = 2 * ((initial_capital * reserve_num) \div reserve_den)
    /\ realized_grid_profit = 0
    /\ grid_prices = ScenarioLadder
    /\ grid_filled = {positions[j].grid_price : j \in 1..Len(positions)}
    /\ grid_group_id = 1
    /\ grid_spacing = 4
    /\ hedge_position = NoHedge
    /\ pending_recenter = FALSE
    /\ grid_db = {[group_id |-> 1, grid_price |-> ScenarioLadder[j], use_status |-> "Y"] :
                     j \in 1..Len(ScenarioLadder)}
    /\ next_id = 2
    /\ last_ensure = NoEnsure
    /\ last_close = NoClose
    /\ last_buys = <<>>
    /\ last_sells = <<>>
    /\ rebuilt = FALSE
    /\ recenter = "none"
    /\ raised = FALSE
    /\ prev = Eng
    /\ FeedOff
    /\ NoHistory

ScenarioSpec == ScenarioInit /\ [][HedgeStep]_vars

---------------------------------------------------------------------------
(* The hedge exit on one-minute bars.  The engine has built the ladder
   40/50/60 from a first close of 70 and has processed a second bar at a
   level of the ladder; the bars that followed, if any, repeated the second
   bar and changed nothing.  Then come bars whose closes lie between the
   levels, a minute apart, so that a hedge is younger or older than
   hedge_min_hold_ms when the price turns. *)

MinuteMs == 1
StartPrices == {40, 50, 60}
ExitPrices == {35, 41, 49, 50, 60}
\* the number of bars processed when the exploration starts
StartBars == {2, 6}
MaxExitBars == 2

\* the exchange of a live run reports the free balances, or a free spot
\* balance below the smallest order
ExitEnvs(m) ==
    IF IsPaper(m) THEN {PaperEnv}
    ELSE {[PaperEnv EXCEPT !.spot_free = 400 * Usdt, !.fut_avail = 300 * Usdt],
          [PaperEnv EXCEPT !.spot_free = 4 * Usdt]}

\* The engine as the constructor leaves it
NewEngine ==
    [available_capital |->
         initial_capital - 2 * ((initial_capital * reserve_num) \div reserve_den),
     futures_available_margin |-> (initial_capital * reserve_num) \div reserve_den,
     realized_grid_profit |-> 0,
     grid_prices |-> <<>>,
     grid_filled |-> {},
     grid_group_id |-> 0,
     grid_spacing |-> 0,
     positions |-> <<>>,
     hedge_position |-> NoHedge,
     pending_recenter |-> FALSE,
     grid_db |-> {},
     next_id |-> 1,
     last_ensure |-> NoEnsure,
     last_close |-> NoClose,
     last_buys |-> <<>>,
     last_sells |-> <<>>,
     rebuilt |-> FALSE,
     recenter |-> "none",
     raised |-> FALSE]

\* what the exchange did during the bars before the exploration starts:
\* nothing wrong, or the second buy order of each bar rejected
StartEnvs(m) ==
    IF IsPaper(m) THEN {PaperEnv}
    ELSE {[PaperEnv EXCEPT !.spot_free = 400 * Usdt, !.fut_avail = 300 * Usdt],
          [PaperEnv EXCEPT !.buy_fail_at = 2]}

\* The engine as a step of on_bar finds it: the logs of the step are empty
\* the element of a one-element set
The(S) == CHOOSE x \in S : TRUE

Fresh(s) ==
    [s EXCEPT !.last_ensure = NoEnsure, !.last_close = NoClose, !.last_buys = <<>>,
              !.last_sells = <<>>, !.raised = FALSE]

\* One whole on_bar: the engine before its last step and after it.  An
\* exception raised by the buy or the sell pass ends on_bar.
\* The engine of each stage is bound as a value before the next stage reads
\* it.
OnBarWhole(s, m, b) ==
    The({IF g.raised THEN [before |-> Fresh(s), after |-> g]
         ELSE The({IF u.raised THEN [before |-> Fresh(g), after |-> u]
                   ELSE The({IF v.raised THEN [before |-> Fresh(u), after |-> v]
                             ELSE [before |-> Fresh(v),
                                   after |-> ProcessHedge(Fresh(v), m, b.ts, b.price,
                                                          b.row, b.env)] :
                             v \in {ProcessSellGrid(Fresh(u), m, b.price, b.env)}}) :
                   u \in {ProcessBuyGrid(Fresh(g), m, b.price, b.ts, b.env)}}) :
         g \in {GridStep([Fresh(s) EXCEPT !.rebuilt = FALSE, !.recenter = "none"],
                         m, b)}})

\* on_bar for the bars k..n, a minute apart, all with the same close, the
\* same indicator row and the same behaviour of the exchange
RECURSIVE RunBars(_, _, _, _, _, _, _)
RunBars(s, m, price, row, env, k, n) ==
    The({IF k >= n THEN r ELSE RunBars(r.after, m, price, row, env, k + 1, n) :
         r \in {OnBarWhole(s, m, [price |-> price, row |-> row, ts |-> k * MinuteMs,
                                  env |-> env])}})

\* on_bar at 70 (the ladder), then the bars 2..n at the level `price`
ExitStart(m, price, row, env, n) ==
    The({RunBars(s, m, price, row, env, 2, n) :
         s \in {InitLowerGrid(NewEngine, 70, row.atr_14, 0)}})

ExitInit ==
    /\ mode \in Modes
    /\ pc = "idle"
    /\ nbars \in StartBars
    /\ \E price \in StartPrices : \E row \in Rows(price) : \E env \in StartEnvs(mode) :
         \E r \in {ExitStart(mode, price, row, env, nbars)} : \E s \in {r.after} :
            /\ bar = [price |-> price, row |-> row, ts |-> nbars * MinuteMs, env |-> env]
            /\ available_capital = s.available_capital
            /\ futures_available_margin = s.futures_available_margin
            /\ realized_grid_profit = s.realized_grid_profit
            /\ grid_prices = s.grid_prices
            /\ grid_filled = s.grid_filled
            /\ grid_group_id = s.grid_group_id
            /\ grid_spacing = s.grid_spacing
            /\ positions = s.positions
            /\ hedge_position = s.hedge_position
            /\ pending_recenter = s.pending_recenter
            /\ grid_db = s.grid_db
            /\ next_id = s.next_id
            /\ last_ensure = s.last_ensure
            /\ last_close = s.last_close
            /\ last_buys = s.last_buys
            /\ last_sells = s.last_sells
            /\ rebuilt = s.rebuilt
            /\ recenter = s.recenter
            /\ raised = s.raised
            /\ prev = r.before
    /\ FeedOff
    /\ NoHistory

ExitBar ==
    /\ \E b0 \in StartBars : b0 <= nbars /\ nbars < b0 + MaxExitBars
    /\ BarStep(ExitPrices, ExitEnvs(mode), MinuteMs)

ExitNext == ExitBar \/ BuyStep \/ SellStep \/ HedgeStep

ExitSpec == ExitInit /\ [][ExitNext]_vars

---------------------------------------------------------------------------
(* The soft spacing adjustment.  The same engines as above receive bars
   whose ATR(14) is level with ATR(28), well above it (the spacing widens to
   2 * ATR(14)) or well below it (the spacing shrinks to ATR(14)). *)

\* <<ATR(14), ATR(28)>>
SpacingAtrs == {<<10, 10>>, <<20, 10>>, <<6, 10>>}

SpacingPrices == {41, 60}

SpacingRows(price) ==
    {[row EXCEPT !.atr_14 = a[1], !.atr_28 = a[2]] :
        <<row, a>> \in Rows(price) \X SpacingAtrs}

SpacingBar ==
    /\ \E b0 \in StartBars : b0 <= nbars /\ nbars < b0 + MaxExitBars
    /\ BarStepOn({[price |-> x[1], row |-> x[2], env |-> x[3]] :
                    x \in {y \in SpacingPrices
                                  \X (UNION {SpacingRows(q) : q \in SpacingPrices})
                                  \X ExitEnvs(mode) : y[2] \in SpacingRows(y[1])}},
                 MinuteMs)

SpacingNext == SpacingBar \/ BuyStep \/ SellStep \/ HedgeStep

SpacingSpec == ExitInit /\ [][SpacingNext]_vars

---------------------------------------------------------------------------
(* The live feed loops: connect_and_listen of app_runner.py and
   kline_listener of live_runner.py.  One call of on_candle is one step here;
   what it does to the engine is the subject of Spec. *)

ReconnectDelay == 5
Runners == {"app_runner", "live_runner"}

(* Bounds of the exploration *)
MaxInbox == 2
MaxMsgs == 3
MaxDrops == 2

FeedInit ==
    /\ EngineInit
    /\ mode = "live"
    /\ runner \in Runners
    /\ feed_pc = "connect"
    /\ ws = "none"
    /\ inbox = <<>>
    /\ active = 0
    /\ arrived = 0
    /\ drops = 0
    /\ waited = 0
    /\ NoHistory

\* Where an exception raised inside the loop body takes the coroutine:
\* connect_and_listen catches it and sleeps, kline_listener has no handler
\* and the exception ends the coroutine (and with it asyncio.run).
AfterException(r) == IF r = "app_runner" THEN "sleep" ELSE "exited"

\* A loop that takes the next message while a candle is being processed
CanDispatch_busy(p) == p \in {"recv", "handle"}

\* The loop reads the next message only at its receive point
CanDispatch(p) == p = "recv"

\* websockets.connect(uri): the connection is made, or the call raises
FeedConnect ==
    /\ feed_pc = "connect"
    /\ \/ /\ ws' = "up"
          /\ feed_pc' = "recv"
          /\ UNCHANGED drops
       \/ /\ drops < MaxDrops
          /\ ws' = "none"
          /\ feed_pc' = AfterException(runner)
          /\ drops' = drops + 1
    /\ inbox' = <<>>
    /\ waited' = 0
    /\ UNCHANGED <<engine_vars, runner, active, arrived>>

\* The exchange sends a kline message; x tells whether the candle is closed
FeedArrive ==
    /\ ws = "up"
    /\ arrived < MaxMsgs
    /\ Len(inbox) < MaxInbox
    /\ \E x \in BOOLEAN : inbox' = Append(inbox, [x |-> x])
    /\ arrived' = arrived + 1
    /\ UNCHANGED <<engine_vars, runner, feed_pc, ws, active, drops, waited>>

\* The connection drops: with a normal close code or with an error
FeedDrop ==
    /\ ws = "up"
    /\ drops < MaxDrops
    /\ ws' \in {"closed_ok", "closed_err"}
    /\ drops' = drops + 1
    /\ UNCHANGED <<engine_vars, runner, feed_pc, inbox, active, arrived, waited>>

\* The loop takes the next message and, for a closed candle, calls on_candle
FeedRecv ==
    /\ CanDispatch(feed_pc)
    /\ inbox # <<>>
    /\ inbox' = Tail(inbox)
    /\ IF Head(inbox).x
       THEN feed_pc' = "handle" /\ active' = active + 1
       ELSE UNCHANGED <<feed_pc, active>>
    /\ UNCHANGED <<engine_vars, runner, ws, arrived, drops, waited>>

\* The loop waits for a message on a closed connection. `async for` ends
\* without an exception after a normal close and connect_and_listen goes
\* round its `while True` at once; after an error it raises. ws.recv() of
\* kline_listener raises in both cases.
FeedEndOfStream ==
    /\ feed_pc = "recv"
    /\ inbox = <<>>
    /\ ws \in {"closed_ok", "closed_err"}
    /\ feed_pc' = IF runner = "app_runner" /\ ws = "closed_ok" THEN "connect"
                  ELSE AfterException(runner)
    /\ ws' = "none"
    /\ waited' = 0
    /\ UNCHANGED <<engine_vars, runner, inbox, active, arrived, drops>>

\* on_candle (and _process_tick after it) returns, or raises
OnCandleReturn ==
    /\ feed_pc = "handle"
    /\ active' = active - 1
    /\ \/ /\ feed_pc' = "recv"
          /\ UNCHANGED <<ws, inbox, waited>>
       \/ /\ feed_pc' = AfterException(runner)
          /\ ws' = "none"
          /\ inbox' = <<>>
          /\ waited' = 0
    /\ UNCHANGED <<engine_vars, runner, arrived, drops>>

\* One second of asyncio.sleep(5)
SleepTick ==
    /\ feed_pc = "sleep"
    /\ waited < ReconnectDelay
    /\ waited' = waited + 1
    /\ UNCHANGED <<engine_vars, runner, feed_pc, ws, inbox, active, arrived, drops>>

\* asyncio.sleep(5) returns and the `while True` loop starts over
SleepDone ==
    /\ feed_pc = "sleep"
    /\ waited = ReconnectDelay
    /\ feed_pc' = "connect"
    /\ UNCHANGED <<engine_vars, runner, ws, inbox, active, arrived, drops, waited>>

\* The steps of the coroutine, which the event loop runs whenever it can
FeedLoopStep ==
    FeedConnect \/ FeedRecv \/ FeedEndOfStream \/ OnCandleReturn \/ SleepTick \/ SleepDone

FeedNext == FeedLoopStep \/ FeedArrive \/ FeedDrop

FeedSpec == FeedInit /\ [][FeedNext]_vars /\ WF_vars(FeedLoopStep)

---------------------------------------------------------------------------
(* The indicator engine: the True Range of _calc_atr_ema.  The backtest loop
   hands on_bar the same hist_df on every bar, the first 100 bars of the
   file, of which the True Range of the current bar reads the last one; the
   other modes read the bar history back from ohlcv_data. *)

MaxTrBars == 3

\* get_recent_ohlcv(self.symbol, 200)
ohlcv_recent_limit == 200

\* [high, low, close] of the bars of the file or the feed
TrBars ==
    {[high |-> 12, low |-> 8, close |-> 10],
     [high |-> 22, low |-> 18, close |-> 20],
     [high |-> 33, low |-> 27, close |-> 32]}

Reverse(seq) == [i \in 1..Len(seq) |-> seq[Len(seq) + 1 - i]]

\* OhlcvData.get_recent_ohlcv: ORDER BY timestamp DESC LIMIT limit, the rows
\* returned as fetched, newest first
GetRecentOhlcv(db, limit) ==
    Reverse(SubSeq(db, Max(1, Len(db) - limit + 1), Len(db)))

\* ATRCalculator._calc_tr_series(df).iloc[-1]: the True Range of the last
\* row of df against the close of the row before it
CalcTrSeriesLast(df_src) ==
    LET n == Len(df_src)
        cur == df_src[n]
        tr1 == cur.high - cur.low
    IN IF n = 1 THEN tr1
       ELSE LET prev_close == df_src[n - 1].close
            IN Max(tr1, Max(Abs(cur.high - prev_close), Abs(cur.low - prev_close)))

\* _calc_atr_ema: the source frame is hist_df plus the current row when
\* hist_df is given and not empty, the stored history plus the current row
\* otherwise; the row of the current bar is inserted with its True Range.
CalcAtrEma ==
    /\ pc = "idle"
    /\ Len(ohlcv_db) < MaxTrBars
    /\ \E b \in TrBars :
         LET hist == IF df_history # <<>> THEN df_history
                     ELSE GetRecentOhlcv(ohlcv_db, ohlcv_recent_limit)
             df_src == Append([i \in 1..Len(hist) |->
                                  [high |-> hist[i].high, low |-> hist[i].low,
                                   close |-> hist[i].close]], b)
         IN ohlcv_db' = Append(ohlcv_db, [high |-> b.high, low |-> b.low,
                                          close |-> b.close,
                                          tr |-> CalcTrSeriesLast(df_src)])
    /\ UNCHANGED <<mode, pc, bar, nbars, available_capital, futures_available_margin,
                   realized_grid_profit, grid_prices, grid_filled, grid_group_id,
                   grid_spacing, positions, hedge_position, pending_recenter, grid_db,
                   next_id, last_ensure, last_close, last_buys, last_sells, rebuilt,
                   recenter, raised, prev, df_history, feed_vars>>

\* A backtest starts with the last of the 100 history bars of its file, the
\* other modes with an empty ohlcv_data.
TrInit ==
    /\ EngineInit
    /\ FeedOff
    /\ ohlcv_db = <<>>
    /\ IF IsPaper(mode) THEN \E b \in TrBars : df_history = <<b>>
       ELSE df_history = <<>>

TrSpec == TrInit /\ [][CalcAtrEma]_vars

---------------------------------------------------------------------------
(* Properties *)

\* C1: in every reachable state the available capital and the futures
\* available margin are both non-negative.
C1_LedgerNonNegative ==
    available_capital >= 0 /\ futures_available_margin >= 0

\* C2: a down-trend recenter never rebuilds the ladder during the on_bar
\* invocation in which it was triggered; the ladder is rebuilt only by the
\* on_bar of a strictly later bar in which the hedge PnL is >= 0.
C2_DownRecenterDefersRebuild ==
    ~(recenter = "down" /\ rebuilt)

\* C3: at the end of every on_bar the pending-recenter flag is set only if
\* a hedge is open, and every hedge close leaves the flag cleared.
C3_PendingOnlyWithHedge ==
    /\ (pc = "idle" /\ ~raised /\ pending_recenter) => hedge_position.open
    /\ last_close.called => ~pending_recenter

\* C4: at most one hedge exists, and its quantity is > 0 whenever it is
\* open: an order on an open hedge extends that hedge, and a closed hedge
\* leaves nothing behind.
C4_SingleHedgePositiveQty ==
    /\ hedge_position.open => hedge_position.qty > 0
    /\ ~hedge_position.open => hedge_position = NoHedge
    /\ (last_ensure.called /\ last_ensure.hedge_before.open) =>
           /\ last_ensure.hedge_after.open
           /\ last_ensure.hedge_after.timestamp = last_ensure.hedge_before.timestamp

C4_Witness ==
    /\ last_ensure.called
    /\ last_ensure.hedge_before.open
    /\ last_ensure.io_called /\ ~last_ensure.io_failed
    /\ last_ensure.hedge_after.qty > last_ensure.hedge_before.qty

\* currentRatio >= targetRatio on the inputs of the last ensureHedgeRatio call
EnsureRatioReached ==
    last_ensure.hedge_before.qty * last_ensure.target_den
        >= last_ensure.net_spot_qty * last_ensure.target_num

\* C5: ensureHedgeRatio never decreases the hedge quantity, and when
\* currentRatio >= targetRatio it leaves the hedge and the futures
\* available margin unchanged.
C5_EnsureNeverShrinks ==
    last_ensure.called =>
        /\ last_ensure.hedge_after.qty >= last_ensure.hedge_before.qty
        /\ EnsureRatioReached =>
               /\ last_ensure.hedge_after = last_ensure.hedge_before
               /\ last_ensure.fam_after = last_ensure.fam_before

C5_Witness ==
    /\ last_ensure.called
    /\ last_ensure.hedge_before.open
    /\ EnsureRatioReached
    /\ mode = "live"
    /\ bar.env.fut_avail >= 0
    /\ bar.env.fut_avail # last_ensure.fam_before

\* C6 as stated: ensureHedgeRatio is a no-op (no open call, hedge and
\* futures available margin unchanged) when the required margin exceeds the
\* futures available margin or the notional is below minHedgeNotional.
C6_RejectIsNoOp_AsStated ==
    (/\ last_ensure.called
     /\ \/ last_ensure.required_margin > last_ensure.fam_before
        \/ last_ensure.notional < min_hedge_notional) =>
        /\ ~last_ensure.io_called
        /\ last_ensure.hedge_after = last_ensure.hedge_before
        /\ last_ensure.fam_after = last_ensure.fam_before

\* C6 amended: when the target ratio is not reached and the required margin
\* exceeds the futures available margin as refreshed by the call (in paper
\* modes: as it was) or the notional is below minHedgeNotional, there is no
\* open call, the hedge is unchanged and the margin is not debited: it is
\* the refreshed figure, which in paper modes is the figure before the call.
C6_RejectIsNoOp ==
    (/\ last_ensure.called
     /\ ~EnsureRatioReached
     /\ \/ last_ensure.required_margin > last_ensure.fam_at_guard
        \/ last_ensure.notional < min_hedge_notional) =>
        /\ ~last_ensure.io_called
        /\ last_ensure.hedge_after = last_ensure.hedge_before
        /\ last_ensure.fam_after = last_ensure.fam_at_guard
        /\ IsPaper(mode) => last_ensure.fam_after = last_ensure.fam_before
        /\ ~IsPaper(mode) =>
               last_ensure.fam_at_guard = IF bar.env.fut_avail >= 0 THEN bar.env.fut_avail
                                          ELSE last_ensure.fam_before

C6_Witness ==
    /\ last_ensure.called
    /\ ~EnsureRatioReached
    /\ last_ensure.notional >= min_hedge_notional
    /\ last_ensure.required_margin > last_ensure.fam_at_guard
    /\ last_ensure.fam_at_guard > 0
    /\ last_ensure.fam_at_guard # last_ensure.fam_before

\* What the ledger should receive back from the hedge the last close closed
CloseLocked == last_close.hedge_before.notional \div hedge_leverage
ClosePnl ==
    last_close.hedge_before.notional
    - Notional(last_close.price, last_close.hedge_before.qty)

C8_SellOnlyAtTarget ==
    /\ \A i \in 1..Len(last_sells) :
           last_sells[i].price >= last_sells[i].pos.target_price
    /\ pc = "hedge" =>
           LET Kept(p) == bar.price < p.target_price
           IN /\ positions = SelectSeq(prev.positions, Kept)
              /\ Len(last_sells) = Len(prev.positions) - Len(positions)

C8_Witness ==
    /\ pc = "hedge"
    /\ Len(last_sells) >= 1
    /\ Len(positions) >= 1

\* C9: a paper-mode sell of a position at price p adds qty*p - qty*entry - fee
\* to the realized profit and qty*p - fee to the available capital, with
\* fee = qty*p*feeRate, and leaves the position's level not filled.
C9_PaperSellAccounting ==
    IsPaper(mode) =>
        \A i \in 1..Len(last_sells) :
            LET e == last_sells[i]
                notional == Notional(e.price, e.pos.qty)
                fee == (notional \div spot_fee_den) * spot_fee_num
            IN /\ e.realized_after =
                      e.realized_before + notional
                      - Notional(e.pos.entry_price, e.pos.qty) - fee
               /\ e.capital_after = e.capital_before + notional - fee
               /\ pc = "hedge" => e.pos.grid_price \notin grid_filled

\* C10: a buy fill at a level takes qty*price*(1+feeRate) from the available
\* capital, marks the level filled and appends exactly one position whose
\* entry is the level price and whose target is level price + current spacing.
C10_BuyFill ==
    Len(last_buys) > 0 =>
        LET n == Len(prev.positions)
        IN /\ Len(positions) = n + Len(last_buys)
           /\ SubSeq(positions, 1, n) = prev.positions
           /\ last_buys[Len(last_buys)].capital_after = available_capital
           /\ \A i \in 1..Len(last_buys) :
                  LET b == last_buys[i]
                      notional == Notional(b.level_price, b.qty)
                      fee == (notional \div spot_fee_den) * spot_fee_num
                  IN /\ b.capital_after = b.capital_before - notional - fee
                     /\ i > 1 => b.capital_before = last_buys[i - 1].capital_after
                     /\ b.level_price \in grid_filled
                     /\ positions[n + i].entry_price = b.level_price
                     /\ positions[n + i].qty = b.qty
                     /\ positions[n + i].target_price = b.level_price + grid_spacing

C10_Witness ==
    /\ Len(last_buys) >= 2
    /\ Len(prev.positions) >= 1

\* C11: the buy pass never buys a level that is marked filled, never buys a
\* level when the bar price > the level price, and never buys when the
\* available capital is below the order's total cost.
C11_BuyGuards ==
    \A i \in 1..Len(last_buys) :
        LET b == last_buys[i]
            notional == Notional(b.level_price, b.qty)
            fee == (notional \div spot_fee_den) * spot_fee_num
        IN /\ b.level_price \notin prev.grid_filled
           /\ \A j \in 1..Len(last_buys) : j # i => last_buys[j].level_price # b.level_price
           /\ bar.price <= b.level_price
           /\ b.capital_before >= notional + fee

C11_Witness ==
    /\ Len(last_buys) >= 1
    /\ \E j \in 1..Len(grid_prices) :
           /\ grid_prices[j] \in prev.grid_filled
           /\ bar.price <= grid_prices[j]

C13_OneActiveGroup ==
    \A r \in grid_db : r.use_status = "Y" => r.group_id = grid_group_id

\* C14: when the exchange collaborator raises on a buy or a sell during the
\* buy/sell pass, the engine is exactly as before that failed action, with no
\* partial mutation: no position is sold (its level unmarked, its proceeds
\* credited) and still held, and every level bought is held and marked.
C14_FailedOrderIsAtomic ==
    raised =>
        /\ \A i \in 1..Len(last_sells) :
               /\ \A j \in 1..Len(positions) : positions[j] # last_sells[i].pos
        /\ \A i \in 1..Len(last_buys) :
               /\ last_buys[i].level_price \in grid_filled
               /\ \E j \in 1..Len(positions) :
                      positions[j].grid_price = last_buys[i].level_price

\* C15: no collaborator failure raised during on_bar (an exchange buy or sell
\* call among them) propagates out of on_bar: the failed action is skipped
\* and the remaining steps of the bar still run.
C15_NoFailureEscapes == ~raised

\* C16: a recenter triggered with a sideways trend while a hedge is open with
\* hedge PnL < 0 is skipped entirely: grid prices, group id, spacing,
\* positions, hedge state and capital are unchanged and no new grid rows are
\* persisted.
C16_SkippedRecenterIsNoOp ==
    (/\ pc = "buy"
     /\ NeedRecenter(prev, bar.price, bar.row.atr_14)
     /\ ~(bar.price < bar.row.ema_fast /\ bar.row.ema_fast < bar.row.ema_mid
            /\ bar.row.ema_mid < bar.row.ema_slow)
     /\ ~(bar.price > bar.row.ema_fast /\ bar.row.ema_fast > bar.row.ema_mid)
     /\ prev.hedge_position.open
     /\ HedgePnl(prev.hedge_position, bar.price) < 0)
    => /\ grid_prices = prev.grid_prices
       /\ grid_filled = prev.grid_filled
       /\ grid_group_id = prev.grid_group_id
       /\ grid_spacing = prev.grid_spacing
       /\ positions = prev.positions
       /\ hedge_position = prev.hedge_position
       /\ available_capital = prev.available_capital
       /\ futures_available_margin = prev.futures_available_margin
       /\ realized_grid_profit = prev.realized_grid_profit
       /\ grid_db = prev.grid_db
       /\ ~rebuilt

C16_Witness ==
    /\ pc = "buy"
    /\ recenter = "skipped"
    /\ prev.hedge_position.open
    /\ HedgePnl(prev.hedge_position, bar.price) < 0
    /\ positions # <<>>

\* C17: when a sideways / fallback full recenter runs (no hedge, or hedge
\* PnL >= 0), afterwards the hedge is null, every spot position has been
\* liquidated (positions is empty), the old group is deactivated and a new
\* ladder with a different group id, all levels below the current price,
\* is active.
C17_FullRecenterOutcome ==
    (pc = "buy" /\ recenter = "full") =>
        /\ ~hedge_position.open
        /\ positions = <<>>
        /\ \A r \in grid_db : r.group_id = prev.grid_group_id => r.use_status = "N"
        /\ grid_group_id # prev.grid_group_id
        /\ grid_group_id # 0
        /\ Len(grid_prices) = grid_levels
        /\ \A j \in 1..Len(grid_prices) :
               /\ grid_prices[j] < bar.price
               /\ [group_id |-> grid_group_id, grid_price |-> grid_prices[j],
                   use_status |-> "Y"] \in grid_db

\* C18: bar processing is strictly serialized: the feed loop hands one
\* closed-bar event at a time to the engine, and a second on_candle never
\* starts before the previous one has returned.
C18_BarsSerialized ==
    /\ active <= 1
    /\ active = 1 <=> feed_pc = "handle"

\* a closed candle waits in the socket while another one is being processed
C18_Witness ==
    /\ active = 1
    /\ inbox # <<>>
    /\ Head(inbox).x

\* C19: the live feed loop never terminates on a connection drop: after every
\* drop it waits the fixed 5 s delay and then attempts a new connection.
C19_ReconnectAfterDrop ==
    /\ feed_pc # "exited"
    /\ (feed_pc = "connect" /\ drops > 0) => waited = ReconnectDelay

\* The scenario's bar has been evaluated with no hedge before it, the open
\* call succeeding and the futures margin at the guard covering the margin
\* of a hedge of 0.3 times the net spot quantity.
C20_ScenarioDone ==
    /\ pc = "idle"
    /\ grid_prices = ScenarioLadder
    /\ bar.price = 190
    /\ bar.row.ema_mid = 192
    /\ prev.positions # <<>>
    /\ ~prev.hedge_position.open
    /\ ~bar.env.open_fails
    /\ LET fam == IF ~IsPaper(mode) /\ bar.env.fut_avail >= 0
                  THEN bar.env.fut_avail ELSE prev.futures_available_margin
           qty == (SumQty(prev.positions) * danger_ratio_num) \div danger_ratio_den
       IN fam > 0 /\ Notional(bar.price, qty) \div hedge_leverage <= fam

\* C20 as stated: with lowest level 94, second-lowest 96, bar price 95,
\* emaFast 94.5 and emaMid 96, open spot positions, valid ATR/EMA and
\* sufficient futures margin, processing the bar opens a danger-zone hedge
\* whose qty is 0.3 times the net spot qty.
C20_DangerZoneHedge_AsStated ==
    (C20_ScenarioDone /\ bar.row.ema_fast = 189) =>
        /\ hedge_position.open
        /\ hedge_position.qty * danger_ratio_den = SumQty(prev.positions) * danger_ratio_num

\* C20 amended: in that scenario the danger-zone hedge of 0.3 times the net
\* spot qty opens when price < emaFast < emaMid (emaFast 95.5); with emaFast
\* 94.5 the price is not below emaFast and no hedge is opened.
C20_DangerZoneHedge ==
    /\ (C20_ScenarioDone /\ bar.row.ema_fast = 191) =>
          /\ hedge_position.open
          /\ hedge_position.qty * danger_ratio_den
                = SumQty(prev.positions) * danger_ratio_num
          /\ last_ensure.called /\ last_ensure.target_num = danger_ratio_num
    /\ (C20_ScenarioDone /\ bar.row.ema_fast = 189) =>
          /\ ~hedge_position.open
          /\ ~last_ensure.called

C20_Witness ==
    /\ C20_ScenarioDone
    /\ bar.row.ema_fast = 191
    /\ hedge_position.open
    /\ last_ensure.io_called

\* The on_bar step just taken ran the down-trend recenter on a total spot
\* quantity Q > 0 and no sell was rejected.
C21_DownRecenterDone ==
    /\ pc = "buy"
    /\ recenter = "down"
    /\ SumQty(prev.positions) > 0
    /\ bar.env.sell_fail_at = 0

\* C21: a down-trend recenter with total spot qty Q > 0 and all sells
\* succeeding sells exactly Q/2 in aggregate, consuming the positions in
\* descending entry-price order (the last one partially), leaves exactly Q/2
\* held, then requests a hedge ratio of 1.0 on the remaining qty and sets
\* PendingRecenter.
C21_DownRecenterHalves ==
    C21_DownRecenterDone =>
        /\ 2 * SumQty(positions) = SumQty(prev.positions)
        /\ \A j \in 1..Len(positions) :
               /\ positions[j].qty > 0
               /\ \E i \in 1..Len(prev.positions) :
                      /\ positions[j].qty <= prev.positions[i].qty
                      /\ [positions[j] EXCEPT !.qty = prev.positions[i].qty]
                            = prev.positions[i]
        /\ \A a, b \in 1..Len(prev.positions) :
               (/\ prev.positions[a].entry_price < prev.positions[b].entry_price
                /\ \E j \in 1..Len(positions) : positions[j] = prev.positions[b])
               => \E j \in 1..Len(positions) : positions[j] = prev.positions[a]
        /\ last_ensure.called
        /\ last_ensure.target_num = last_ensure.target_den
        /\ last_ensure.net_spot_qty = SumQty(positions)
        /\ last_ensure.price = bar.price
        /\ pending_recenter

\* three positions, of which one is sold whole, one split and one kept
C21_Witness ==
    /\ C21_DownRecenterDone
    /\ Len(prev.positions) = 3
    /\ Len(positions) = 2
    /\ \E j \in 1..Len(positions) : \A i \in 1..Len(prev.positions) :
           positions[j] # prev.positions[i]
    /\ \E j \in 1..Len(positions) : \E i \in 1..Len(prev.positions) :
           positions[j] = prev.positions[i]

\* the positions of ps that show no gain at the price, in their order
RECURSIVE C22_NotInProfit(_, _)
C22_NotInProfit(ps, price) ==
    IF ps = <<>> THEN <<>>
    ELSE IF (price - Head(ps).entry_price) * Head(ps).qty > 0
         THEN C22_NotInProfit(Tail(ps), price)
         ELSE <<Head(ps)>> \o C22_NotInProfit(Tail(ps), price)

\* C22: an up-trend recenter closes the hedge iff one is open with
\* PnL >= 0, sells exactly the positions with (price - entry) * qty > 0 and
\* keeps all the others, and on return a new lower-only ladder with a new
\* group id is active and the old group is deactivated.
C22_UpRecenterOutcome ==
    (pc = "buy" /\ recenter = "up") =>
        /\ last_close.called <=>
               (prev.hedge_position.open
                /\ HedgePnl(prev.hedge_position, bar.price) >= 0)
        /\ last_close.called => ~hedge_position.open
        /\ ~last_close.called => hedge_position = prev.hedge_position
        /\ positions = C22_NotInProfit(prev.positions, bar.price)
        /\ \A r \in grid_db : r.group_id = prev.grid_group_id => r.use_status = "N"
        /\ grid_group_id # prev.grid_group_id
        /\ grid_group_id # 0
        /\ Len(grid_prices) = grid_levels
        /\ \A j \in 1..Len(grid_prices) :
               /\ grid_prices[j] < bar.price
               /\ [group_id |-> grid_group_id, grid_price |-> grid_prices[j],
                   use_status |-> "Y"] \in grid_db

\* The step just taken is a hedge pass that reached the exit evaluation
\* with a hedge open.
ExitEvaluated ==
    /\ pc = "idle"
    /\ ~raised
    /\ HedgeEvaluated(prev, bar.row)
    /\ HedgeEntry(prev, mode, bar.ts, bar.price, bar.row, bar.env).hedge_position.open

\* The engine, the hedge PnL and the spot PnL the exit evaluation started from
AtExit == HedgeEntry(prev, mode, bar.ts, bar.price, bar.row, bar.env)
ExitHedgePnl == HedgePnl(AtExit.hedge_position, bar.price)
ExitSpotUnrealized == SpotUnrealized(prev, bar.price)

\* C23: in the exit evaluation with a hedge open, if PendingRecenter is set
\* and hedgePnl >= 0, the deferred full recenter executes (hedge closed, new
\* ladder active) and the flag is cleared, with priority over the max-loss,
\* take-profit and reversal branches, none of which runs in that evaluation.
C23_DeferredRecenterFirst ==
    (ExitEvaluated /\ AtExit.pending_recenter /\ ExitHedgePnl >= 0) =>
        /\ ~hedge_position.open
        /\ last_close.called
        /\ last_close.reason = "RECENTER"
        /\ last_close.hedge_before = AtExit.hedge_position
        /\ ~pending_recenter
        /\ grid_group_id # prev.grid_group_id
        /\ grid_group_id # 0
        /\ Len(grid_prices) = grid_levels
        /\ \A j \in 1..Len(grid_prices) :
               /\ grid_prices[j] < bar.price
               /\ [group_id |-> grid_group_id, grid_price |-> grid_prices[j],
                   use_status |-> "Y"] \in grid_db

\* the deferred recenter runs on a bar whose take-profit condition holds too
C23_Witness ==
    /\ ExitEvaluated
    /\ AtExit.pending_recenter
    /\ ExitHedgePnl > 0
    /\ TakeProfitDue(ExitSpotUnrealized, ExitHedgePnl)
    /\ last_close.reason = "RECENTER"
    /\ ~pending_recenter

\* The exit evaluation went past the deferred-recenter branch
C24_PastDeferred ==
    /\ ExitEvaluated
    /\ ~(AtExit.pending_recenter /\ ExitHedgePnl >= 0)

\* C24 as stated: in the exit evaluation (deferred-recenter branch not
\* taken), whenever hedgePnl <= -|spotUnrealized| * hedgeMaxLossRatio the
\* hedge is closed on that bar and PendingRecenter is cleared, for either
\* sign of spotUnrealized.
C24_MaxLossCloses_AsStated ==
    (C24_PastDeferred
     /\ ExitHedgePnl <= -(Abs(ExitSpotUnrealized) * hedge_max_loss_ratio)) =>
        /\ ~hedge_position.open
        /\ ~pending_recenter

\* C24: in the exit evaluation (deferred-recenter branch not taken),
\* whenever the spot side loses (spotUnrealized < 0) and hedgePnl <=
\* spotUnrealized * hedgeMaxLossRatio, the hedge is closed on that bar for
\* the reason MAX_LOSS and PendingRecenter is cleared; when the spot side
\* does not lose, the max-loss branch never closes the hedge.
C24_MaxLossCloses ==
    /\ (C24_PastDeferred /\ ExitSpotUnrealized < 0
        /\ ExitHedgePnl <= ExitSpotUnrealized * hedge_max_loss_ratio) =>
           /\ ~hedge_position.open
           /\ last_close.called
           /\ last_close.reason = "MAX_LOSS"
           /\ last_close.hedge_before = AtExit.hedge_position
           /\ ~pending_recenter
    /\ (ExitEvaluated /\ ExitSpotUnrealized >= 0 /\ last_close.called) =>
           last_close.reason # "MAX_LOSS"

\* a hedge that loses more than the spot side is closed while a recenter is
\* pending
C24_Witness ==
    /\ C24_PastDeferred
    /\ AtExit.pending_recenter
    /\ ExitSpotUnrealized < 0
    /\ ExitHedgePnl <= ExitSpotUnrealized * hedge_max_loss_ratio
    /\ last_close.called
    /\ last_close.reason = "MAX_LOSS"
    /\ ~pending_recenter

\* The exit evaluation went past the deferred-recenter and max-loss branches
C25_PastMaxLoss ==
    /\ C24_PastDeferred
    /\ ~MaxLossDue(ExitSpotUnrealized, ExitHedgePnl)

\* the hedge is closed for take-profit and the spot side is rebalanced with
\* the hedge PnL
C25_TakeProfitTaken ==
    /\ ~hedge_position.open
    /\ last_close.called
    /\ last_close.reason = "TP"
    /\ last_close.hedge_before = AtExit.hedge_position
    /\ positions = RebalanceSpotAfterHedge(AtExit, ExitHedgePnl, bar.price,
                                           bar.env).positions

\* C25 as stated: in the exit evaluation (no earlier branch taken), whenever
\* hedgePnl >= lossToCover * hedgeTpRatio with lossToCover =
\* max(0, -spotUnrealized), the hedge is closed and rebalanceSpotAfterHedge
\* is invoked with that hedgePnl.
C25_TakeProfit_AsStated ==
    (C25_PastMaxLoss
     /\ ExitHedgePnl * hedge_tp_den >= Max(0, -ExitSpotUnrealized)) =>
        C25_TakeProfitTaken

\* C25: in the exit evaluation (no earlier branch taken), whenever
\* lossToCover = max(0, -spotUnrealized) is positive and hedgePnl >=
\* lossToCover * hedgeTpRatio, the hedge is closed and
\* rebalanceSpotAfterHedge is invoked with that hedgePnl; with lossToCover = 0
\* the take-profit branch does not close the hedge.
C25_TakeProfit ==
    /\ (C25_PastMaxLoss /\ ExitSpotUnrealized < 0
        /\ ExitHedgePnl * hedge_tp_den >= -ExitSpotUnrealized) =>
           C25_TakeProfitTaken
    /\ (ExitEvaluated /\ ExitSpotUnrealized >= 0 /\ last_close.called) =>
           last_close.reason # "TP"

\* a take-profit whose gain does not cover the whole spot loss and whose
\* rebalance has gone through the positions (it leaves them sorted by entry
\* price, highest first)
C25_Witness ==
    /\ C25_PastMaxLoss
    /\ ExitSpotUnrealized < 0
    /\ ExitHedgePnl * hedge_tp_den >= -ExitSpotUnrealized
    /\ ExitHedgePnl < -ExitSpotUnrealized
    /\ last_close.called
    /\ last_close.reason = "TP"
    /\ positions # prev.positions

\* The exit evaluation went past the deferred-recenter, max-loss and
\* take-profit branches
C26_PastTakeProfit ==
    /\ C25_PastMaxLoss
    /\ ~TakeProfitDue(ExitSpotUnrealized, ExitHedgePnl)

\* C26 as stated: in the exit evaluation (no earlier branch taken), whenever
\* price > emaFast and emaFast > emaMid and hedgePnl <=
\* -|spotUnrealized| * hedgeSlRatio, the hedge is closed on that bar and
\* PendingRecenter is cleared.
C26_ReversalStop_AsStated ==
    (C26_PastTakeProfit
     /\ bar.price > bar.row.ema_fast /\ bar.row.ema_fast > bar.row.ema_mid
     /\ ExitHedgePnl * hedge_sl_den <= -Abs(ExitSpotUnrealized)) =>
        /\ ~hedge_position.open
        /\ ~pending_recenter

\* C26: in the exit evaluation (no earlier branch taken), whenever
\* price > emaFast and emaFast > emaMid, spotUnrealized is not 0 and
\* hedgePnl <= -|spotUnrealized| * hedgeSlRatio, the hedge is closed on that
\* bar for the reason SL_REVERSAL and PendingRecenter is cleared; with
\* spotUnrealized = 0 the reversal stop does not close the hedge.
C26_ReversalStop ==
    /\ (C26_PastTakeProfit
        /\ bar.price > bar.row.ema_fast /\ bar.row.ema_fast > bar.row.ema_mid
        /\ ExitSpotUnrealized # 0
        /\ ExitHedgePnl * hedge_sl_den <= -Abs(ExitSpotUnrealized)) =>
           /\ ~hedge_position.open
           /\ last_close.called
           /\ last_close.reason = "SL_REVERSAL"
           /\ last_close.hedge_before = AtExit.hedge_position
           /\ ~pending_recenter
    /\ (ExitEvaluated /\ ExitSpotUnrealized = 0 /\ last_close.called) =>
           last_close.reason # "SL_REVERSAL"

\* a reversal stop on a hedge whose loss is below twice the threshold, and
\* one that clears a pending recenter
C26_Witness ==
    /\ C26_PastTakeProfit
    /\ bar.price > bar.row.ema_fast /\ bar.row.ema_fast > bar.row.ema_mid
    /\ ExitSpotUnrealized # 0
    /\ ExitHedgePnl * hedge_sl_den <= -Abs(ExitSpotUnrealized)
    /\ ExitHedgePnl * hedge_sl_den > -(2 * Abs(ExitSpotUnrealized))
    /\ last_close.called
    /\ last_close.reason = "SL_REVERSAL"

\* The exit evaluation reached the reversal cut: the price has turned
\* (price > emaFast > emaMid), the hedge loses, and its loss is above the
\* stop threshold, so that no earlier branch was taken.
C27_AtReversalCut ==
    /\ C26_PastTakeProfit
    /\ bar.price > bar.row.ema_fast /\ bar.row.ema_fast > bar.row.ema_mid
    /\ ExitHedgePnl < 0
    /\ ~(ExitSpotUnrealized # 0
         /\ ExitHedgePnl * hedge_sl_den <= -Abs(ExitSpotUnrealized))

\* the time elapsed since the hedge was opened
C27_Elapsed == bar.ts - AtExit.hedge_position.timestamp

\* C27: under the reversal condition with a losing hedge above the stop
\* threshold, the hedge is closed (and PendingRecenter cleared) exactly when
\* the time elapsed since the hedge was first opened is >= hedgeMinHoldMs;
\* while the hold time is below hedgeMinHoldMs the reversal cut never closes
\* it.
C27_CutAfterMinHold ==
    /\ (C27_AtReversalCut /\ C27_Elapsed >= hedge_min_hold_ms) =>
           /\ ~hedge_position.open
           /\ last_close.called
           /\ last_close.reason = "REVERSAL_CUT"
           /\ last_close.hedge_before = AtExit.hedge_position
           /\ ~pending_recenter
    /\ (C27_AtReversalCut /\ C27_Elapsed < hedge_min_hold_ms) =>
           /\ hedge_position = AtExit.hedge_position
           /\ ~last_close.called
           /\ pending_recenter = AtExit.pending_recenter
    /\ (ExitEvaluated /\ last_close.called /\ C27_Elapsed < hedge_min_hold_ms) =>
           last_close.reason # "REVERSAL_CUT"

\* a hedge cut at the first bar on which it is old enough
C27_Witness ==
    /\ C27_AtReversalCut
    /\ C27_Elapsed = hedge_min_hold_ms
    /\ last_close.called
    /\ last_close.reason = "REVERSAL_CUT"
    /\ ~hedge_position.open

\* a losing hedge that the turn of the price finds too young to be cut
C27_WitnessYoung ==
    /\ C27_AtReversalCut
    /\ C27_Elapsed > 0
    /\ C27_Elapsed < hedge_min_hold_ms
    /\ hedge_position.open

\* The step just taken closed the hedge for take-profit and handed its PnL
\* to rebalanceSpotAfterHedge.
C28_Rebalanced ==
    /\ ExitEvaluated
    /\ last_close.called
    /\ last_close.reason = "TP"

\* the positions a rebalance sold
C28_Sold(before, after) ==
    {before[i] : i \in 1..Len(before)} \ {after[i] : i \in 1..Len(after)}

C28_Loss(p, price) == Notional(p.entry_price, p.qty) - Notional(price, p.qty)

RECURSIVE C28_SumLoss(_, _)
C28_SumLoss(ps, price) ==
    IF ps = {} THEN 0
    ELSE LET p == CHOOSE x \in ps : TRUE
         IN C28_Loss(p, price) + C28_SumLoss(ps \ {p}, price)

\* What the claim says of one rebalance that turned the positions before
\* into the positions after with hedgePnl = pnl: nothing but positions is
\* sold, the sold ones lose, their losses sum to at most pnl, and (when no
\* sell order is rejected) a losing position is kept only if its loss
\* exceeds what the sales of the dearer positions left of pnl.
C28_InOrderWithinPnl(before, after, pnl, price, no_reject) ==
    LET sold == C28_Sold(before, after)
    IN /\ \A i \in 1..Len(after) : \E j \in 1..Len(before) : after[i] = before[j]
       /\ Len(after) + Cardinality(sold) = Len(before)
       /\ \A p \in sold : C28_Loss(p, price) > 0
       /\ C28_SumLoss(sold, price) <= pnl
       /\ no_reject =>
             \A i \in 1..Len(after) :
                \/ C28_Loss(after[i], price) <= 0
                \/ C28_Loss(after[i], price)
                     > pnl - C28_SumLoss({q \in sold :
                                            q.entry_price > after[i].entry_price}, price)

\* C28: rebalanceSpotAfterHedge with hedgePnl > 0 sells only positions whose
\* unrealized PnL is negative, considered in descending entry-price order,
\* and the sum of the losses of the positions it sells never exceeds
\* hedgePnl; positions with unrealized PnL >= 0 are never sold, and with
\* hedgePnl <= 0 it changes nothing.  Checked on the rebalance of every
\* take-profit, and on the rebalance of the current positions with a
\* hedgePnl equal to the loss of any one of them.
C28_RebalanceWithinHedgePnl ==
    /\ C28_Rebalanced =>
          /\ ExitHedgePnl > 0
          /\ C28_InOrderWithinPnl(prev.positions, positions, ExitHedgePnl, bar.price,
                                  bar.env.sell_fail_at = 0)
    /\ \A k \in 1..Len(positions) :
          LET pnl == C28_Loss(positions[k], bar.price)
          IN pnl > 0 =>
               C28_InOrderWithinPnl(
                   positions,
                   RebalanceSpotAfterHedge(Eng, pnl, bar.price, PaperEnv).positions,
                   pnl, bar.price, TRUE)
    /\ \A pnl \in {0, -1, -Usdt} :
          RebalanceSpotAfterHedge(Eng, pnl, bar.price, bar.env) = Eng

\* a rebalance that sells a losing position the hedge PnL covers and keeps
\* two dearer ones whose losses it does not cover
C28_Witness ==
    /\ C28_Rebalanced
    /\ C28_Sold(prev.positions, positions) # {}
    /\ \E i, j \in 1..Len(positions) :
          /\ i # j
          /\ C28_Loss(positions[i], bar.price) > ExitHedgePnl
          /\ C28_Loss(positions[j], bar.price) > ExitHedgePnl
          /\ \A p \in C28_Sold(prev.positions, positions) :
                 positions[i].entry_price > p.entry_price

\* The last ensureHedgeRatio call of the step extended an open hedge: the
\* target ratio was not reached, the guards passed and the order was filled.
C29_ScaledIn ==
    /\ last_ensure.called
    /\ last_ensure.hedge_before.open
    /\ ~EnsureRatioReached
    /\ last_ensure.io_called
    /\ ~last_ensure.io_failed

\* the hedge a scale-in leaves: qty = targetRatio * netSpotQty, and an
\* entry price (notional / qty) that is the volume-weighted average of the
\* previous entry and the fill price
C29_TargetHedge ==
    /\ last_ensure.hedge_after.open
    /\ last_ensure.hedge_after.qty =
           (last_ensure.net_spot_qty * last_ensure.target_num) \div last_ensure.target_den
    /\ last_ensure.hedge_after.qty =
           last_ensure.hedge_before.qty + last_ensure.add_qty
    /\ last_ensure.hedge_after.notional =
           last_ensure.hedge_before.notional
           + Notional(last_ensure.price + bar.env.fill_slip, last_ensure.add_qty)
    /\ last_ensure.required_margin =
           Notional(last_ensure.price, last_ensure.add_qty) \div hedge_leverage

\* C29 as stated: on a successful scale-in with currentRatio < targetRatio,
\* the resulting hedge qty equals targetRatio*netSpotQty, the hedge entry
\* price equals the volume-weighted average of the previous entry and the
\* new fill price, and futuresAvailableMargin decreases by exactly
\* requiredMargin = addQty*price/leverage.
C29_ScaleIn_AsStated ==
    C29_ScaledIn =>
        /\ C29_TargetHedge
        /\ last_ensure.fam_after = last_ensure.fam_before - last_ensure.required_margin

\* C29 amended: the hedge is as stated; in paper modes
\* futuresAvailableMargin decreases by exactly requiredMargin, in live mode
\* it ends as the available balance the exchange reports after the order,
\* and only when that fetch fails as the ledger figure less requiredMargin.
C29_ScaleIn ==
    C29_ScaledIn =>
        /\ C29_TargetHedge
        /\ last_ensure.required_margin <= last_ensure.fam_at_guard
        /\ IsPaper(mode) =>
               last_ensure.fam_after = last_ensure.fam_before - last_ensure.required_margin
        /\ ~IsPaper(mode) =>
               last_ensure.fam_after =
                   IF bar.env.fut_avail >= 0 THEN bar.env.fut_avail
                   ELSE last_ensure.fam_before - last_ensure.required_margin

\* a live scale-in filled at another price than the hedge was entered at,
\* after which the ledger shows the balance the exchange reports
C29_Witness ==
    /\ C29_ScaledIn
    /\ last_ensure.add_qty > 0
    /\ last_ensure.required_margin > 0
    /\ mode = "live"
    /\ bar.env.fut_avail >= 0
    /\ last_ensure.fam_after # last_ensure.fam_before - last_ensure.required_margin
    /\ last_ensure.hedge_before.notional
         # Notional(last_ensure.price + bar.env.fill_slip, last_ensure.hedge_before.qty)

\* a backtest scale-in whose fill price differs from the previous entry
C29_WitnessPaper ==
    /\ C29_ScaledIn
    /\ IsPaper(mode)
    /\ last_ensure.required_margin > 0
    /\ last_ensure.hedge_before.notional
         # Notional(last_ensure.price, last_ensure.hedge_before.qty)
    /\ last_ensure.fam_after < last_ensure.fam_before

\* C30: if the closeHedge collaborator call fails, the close is treated as
\* not having happened this tick: HedgeState stays open with the same qty
\* and entry, and futuresAvailableMargin and availableCapital are unchanged.
C30_FailedCloseKeepsHedge ==
    (last_close.called /\ last_close.io_failed) =>
        /\ last_close.hedge_after = last_close.hedge_before
        /\ last_close.fam_after = last_close.fam_before
        /\ last_close.capital_after = last_close.capital_before

\* The hedge pass of the bar has just run; the hedge it had to manage and
\* the spot PnL the exit evaluation reads (0 once no position is left)
C31_HedgePassDone == pc = "idle" /\ nbars > 0 /\ ~raised
C31_Hedge ==
    IF HedgeEvaluated(prev, bar.row) THEN AtExit.hedge_position ELSE prev.hedge_position
C31_Pending ==
    IF HedgeEvaluated(prev, bar.row) THEN AtExit.pending_recenter ELSE prev.pending_recenter
C31_SpotUnrealized ==
    IF prev.positions = <<>> THEN 0 ELSE SpotUnrealized(prev, bar.price)

\* an exit or the deferred recenter is due for that hedge on this bar
C31_ExitDue ==
    LET hedge_pnl == HedgePnl(C31_Hedge, bar.price)
        reversal == bar.price > bar.row.ema_fast /\ bar.row.ema_fast > bar.row.ema_mid
    IN \/ C31_Pending /\ hedge_pnl >= 0
       \/ C31_SpotUnrealized < 0
          /\ hedge_pnl <= -((-C31_SpotUnrealized) * hedge_max_loss_ratio)
       \/ C31_SpotUnrealized < 0 /\ hedge_pnl * hedge_tp_den >= -C31_SpotUnrealized
       \/ reversal /\ C31_SpotUnrealized # 0
          /\ hedge_pnl * hedge_sl_den <= -Abs(C31_SpotUnrealized)
       \/ reversal /\ hedge_pnl < 0
          /\ bar.ts - C31_Hedge.timestamp >= hedge_min_hold_ms

\* C31: on every bar on which a hedge is open, the hedge exit evaluation is
\* performed, whether or not spot positions remain and whether or not the
\* ATR/EMA values are valid: an open hedge whose exit or deferred-recenter
\* condition holds on a bar is closed during that bar.
C31_OpenHedgeActedOn ==
    (C31_HedgePassDone /\ C31_Hedge.open /\ C31_ExitDue) =>
        /\ last_close.called
        /\ last_close.hedge_before = C31_Hedge
        /\ ~hedge_position.open

RECURSIVE C32_Proceeds(_)
C32_Proceeds(sells) ==
    IF sells = <<>> THEN 0
    ELSE Notional(Head(sells).price, Head(sells).pos.qty) + C32_Proceeds(Tail(sells))

\* C32: in live mode the sell pass does not change availableCapital or
\* realizedGridProfit (the sell is left to external reconciliation); only
\* the paper modes credit them immediately.
C32_LiveSellLeavesLedger ==
    /\ (pc = "hedge" /\ mode = "live") =>
          /\ available_capital = prev.available_capital
          /\ realized_grid_profit = prev.realized_grid_profit
    /\ (pc = "hedge" /\ IsPaper(mode) /\ last_sells # <<>>) =>
          /\ available_capital > prev.available_capital
          /\ available_capital = prev.available_capital + C32_Proceeds(last_sells)

\* a live sell pass that sold a position above its entry price
C32_Witness ==
    /\ pc = "hedge"
    /\ mode = "live"
    /\ last_sells # <<>>
    /\ Len(positions) < Len(prev.positions)
    /\ last_sells[1].price > last_sells[1].pos.entry_price

\* C33: the per-bar soft spacing adjustment changes only the current
\* spacing value: it never changes the grid levels, the filled flags or the
\* active group id, and creates no new group.  Checked on every bar whose
\* ladder step made no recenter, and on the adjustment applied to every
\* engine reached.
C33_SpacingOnly ==
    /\ (pc = "buy" /\ prev.grid_prices # <<>> /\ recenter = "none") =>
          /\ grid_prices = prev.grid_prices
          /\ grid_filled = prev.grid_filled
          /\ grid_group_id = prev.grid_group_id
          /\ grid_db = prev.grid_db
          /\ next_id = prev.next_id
          /\ ~rebuilt
    /\ \A a \in SpacingAtrs :
          LET s == SoftSpacing(Eng, a[1], a[2])
          IN s = [Eng EXCEPT !.grid_spacing = s.grid_spacing]

\* a bar that widened or shrank the spacing of a ladder with a filled level
C33_Witness ==
    /\ pc = "buy"
    /\ recenter = "none"
    /\ grid_spacing # prev.grid_spacing
    /\ prev.grid_spacing > 0
    /\ grid_filled # {}
    /\ grid_prices # <<>>

\* C34: for every processed bar after the first, the True Range stored for
\* that bar is max(high-low, |high-prevClose|, |low-prevClose|) where
\* prevClose is the close of the immediately preceding processed bar, on
\* both the inline-history backtest path and the store-backed path.
C34_TrueRangeOnPrecedingBar ==
    \A i \in 2..Len(ohlcv_db) :
        LET prevClose == ohlcv_db[i - 1].close
            hl == ohlcv_db[i].high - ohlcv_db[i].low
            hc == IF ohlcv_db[i].high >= prevClose THEN ohlcv_db[i].high - prevClose
                  ELSE prevClose - ohlcv_db[i].high
            lc == IF ohlcv_db[i].low >= prevClose THEN ohlcv_db[i].low - prevClose
                  ELSE prevClose - ohlcv_db[i].low
        IN /\ ohlcv_db[i].tr >= hl /\ ohlcv_db[i].tr >= hc /\ ohlcv_db[i].tr >= lc
           /\ ohlcv_db[i].tr \in {hl, hc, lc}

\* the same on the store-backed path alone
C34_StorePath == mode = "live" => C34_TrueRangeOnPrecedingBar

\* the same on the inline-history path alone
C34_InlinePath == IsPaper(mode) => C34_TrueRangeOnPrecedingBar

\* The buy pass has just run and bought: the capital it sized the order from
\* is the capital before its first fill, the slots are the levels of the
\* ladder that were not filled when it started.
C35_BuyPassBought == pc = "sell" /\ Len(last_buys) >= 1

C35_TradableCapital == (last_buys[1].capital_before * 9) \div 10

C35_RemainingSlots ==
    Cardinality({j \in 1..Len(prev.grid_prices) :
                    prev.grid_prices[j] \notin prev.grid_filled})

\* C35 as stated: the order size used by the buy pass is the smaller of the
\* floor and tradable capital / remaining unfilled slots, tradable capital
\* being 90% of the available capital.
C35_OrderSize_AsStated ==
    C35_BuyPassBought =>
        \A i \in 1..Len(last_buys) :
            last_buys[i].qty =
                BuyQty(Min(min_order_usdt, C35_TradableCapital \div C35_RemainingSlots),
                       last_buys[i].level_price)

\* C35: the order size used by the buy pass is the larger of the 5 USDT
\* floor and tradable capital / remaining unfilled slots, tradable capital
\* being 90% of the available capital and the slots the unfilled levels;
\* every fill of the pass uses that one size.
C35_OrderSize ==
    C35_BuyPassBought =>
        \A i \in 1..Len(last_buys) :
            last_buys[i].qty =
                BuyQty(Max(min_order_usdt, C35_TradableCapital \div C35_RemainingSlots),
                       last_buys[i].level_price)

\* A pass that buys two levels while a third was already filled
C35_Witness ==
    /\ C35_BuyPassBought
    /\ Len(last_buys) >= 2
    /\ C35_RemainingSlots < Len(prev.grid_prices)
    /\ C35_TradableCapital \div C35_RemainingSlots > min_order_usdt

\* C36: at the end of every on_bar call a level of the active ladder is
\* marked filled if and only if an open position has that level as its grid
\* price; a trim, a profit-lock or a rebalance leaves no level filled
\* without its position.
C36_FilledIffPosition ==
    pc = "idle" =>
        \A i \in 1..Len(grid_prices) :
            grid_prices[i] \in grid_filled
                <=> \E j \in 1..Len(positions) : positions[j].grid_price = grid_prices[i]

\* Spot quantity removed from the positions list by the step just taken
C37_Removed == SumQty(prev.positions) - SumQty(positions)

\* C37: in the paper modes every removal of spot quantity from the positions
\* list, by whichever path, credits the available capital with the quantity
\* at the bar's price less the fee, so that equity does not drop merely
\* because a position was removed.
C37_RemovalCredits ==
    (IsPaper(mode) /\ C37_Removed > 0) =>
        available_capital >=
            prev.available_capital + Notional(bar.price, C37_Removed)
                                   - Fee(Notional(bar.price, C37_Removed))

\* The down-trend branch of _maybe_recenter_grid has just sold spot
C38_JustTrimmed ==
    pc = "buy" /\ recenter = "down" /\ SumQty(positions) < SumQty(prev.positions)

\* The engine at the end of the on_bar call that is under way (its buy, sell
\* and hedge passes are still to run)
C38_EndOfBar ==
    The({IF u.raised THEN u
         ELSE The({IF v.raised THEN v
                   ELSE ProcessHedge(Fresh(v), mode, bar.ts, bar.price, bar.row, bar.env) :
                   v \in {ProcessSellGrid(Fresh(u), mode, bar.price, bar.env)}}) :
         u \in {ProcessBuyGrid(Eng, mode, bar.price, bar.ts, bar.env)}})

\* The ladder step of the next on_bar call, for a bar closing at price with
\* the indicator row and the exchange behaviour env
C38_NextGridStep(e, price, row, env) ==
    GridStep([Fresh(e) EXCEPT !.rebuilt = FALSE, !.recenter = "none"], mode,
             [price |-> price, row |-> row, ts |-> bar.ts + BarMs, env |-> env])

\* C38: while PendingRecenter is set, a later bar that meets the recenter
\* trigger in a down trend does not trim spot again; the 50% sell-off runs
\* at most once between the flag being set and being cleared.  Stated on the
\* bar of a sell-off that leaves the flag set at its end: whatever the next
\* bar, if it takes the down-trend branch it sells no spot.
C38_TrimOncePerPending ==
    C38_JustTrimmed =>
        \A e \in {C38_EndOfBar} :
            e.pending_recenter =>
                \A price \in Prices : \A row \in Rows(price) : \A env \in Envs(mode) :
                    \A g \in {C38_NextGridStep(e, price, row, env)} :
                        g.recenter = "down" => SumQty(g.positions) = SumQty(e.positions)

\* C39: whenever a recenter path (uptrend, sideways / full, deferred) has
\* built a new ladder, PendingRecenter is not set afterwards; a flag raised
\* for the old ladder does not survive into the new one.
C39_NewLadderNotPending ==
    (rebuilt /\ recenter \in {"up", "full"}) \/ (rebuilt /\ pc = "idle" /\ nbars > 0)
        => ~pending_recenter

\* A paper-mode step whose last operation opened a hedge from none through
\* _ensure_hedge_ratio; nothing has run since
C40_JustOpened ==
    /\ IsPaper(mode)
    /\ last_ensure.called
    /\ ~last_ensure.hedge_before.open
    /\ ~last_close.called
    /\ hedge_position.open
    /\ hedge_position = last_ensure.hedge_after

\* C40: in the paper modes, opening a hedge through _ensure_hedge_ratio at a
\* price (filled at that price) and closing it at the same price, nothing
\* else in between, restores the futures available margin and the available
\* capital to their values before the open.
C40_OpenCloseRoundTrip ==
    C40_JustOpened =>
        /\ hedge_position.notional = Notional(last_ensure.price, hedge_position.qty)
        /\ pc = "idle" => available_capital = prev.available_capital
        /\ \A c \in {CloseHedge(Eng, mode, last_ensure.price, "TP", bar.env)} :
               /\ ~c.hedge_position.open
               /\ c.futures_available_margin = last_ensure.fam_before
               /\ c.available_capital = available_capital

\* The hedge pass opened a hedge and debited its margin
C40_Witness ==
    /\ C40_JustOpened
    /\ pc = "idle"
    /\ futures_available_margin < last_ensure.fam_before
    /\ futures_available_margin > 0

====
